---- MODULE Spec2Model ----
(***************************************************************************)
(* A model of the process execution engine of llvmsupport                  *)
(* (src/SystemError.cpp: sys::ExecuteAndWait, sys::ExecuteNoWait and the   *)
(* static Execute / Wait of the POSIX and of the Windows backend) together *)
(* with the part of the operating system those functions talk to: the      *)
(* process table, the files opened for the child's standard streams, the   *)
(* SIGALRM disposition and the pending alarm.                              *)
(***************************************************************************)
EXTENDS Integers, Sequences, FiniteSets, TLC

(***************************************************************************)
(* Bounds of the model.                                                    *)
(***************************************************************************)
\* API calls (ExecuteAndWait / ExecuteNoWait) made by the caller in one run.
MaxCalls == 2
\* Signals other than the engine's own alarm that the caller receives
\* during one call.
MaxForeignSignals == 1

\* The width of size_t and uintptr_t in the memory manager, in bits.
SizeBits == 5
\* The MemoryBlocks the caller of the memory manager holds.
MaxBlocks == 2
\* The operations of the memory manager in one run.
MaxMemOps == 3
\* The threads that race to the first call of process::get_self.
MaxThreads == 3
\* The calls of FatalError::InstallErrorHandler in one run.
MaxInstalls == 2
\* The arguments of a list given to argumentsFitWithinSystemLimits.
MaxArgs == 2
\* The calls of argumentsFitWithinSystemLimits in one run.
MaxFitCalls == 2
\* The bytes of a FileOutputBuffer.
MaxBufferSize == 2
\* The calls of commit on one FileOutputBuffer.
MaxCommits == 1

(***************************************************************************)
(* Program constants.                                                      *)
(***************************************************************************)
\* _exit code of the forked child when execve fails with ENOENT.
ExitNotFound == 127
\* _exit code of the forked child when execve fails for another reason.
ExitCannotExec == 126
\* The signal kill() sends to a timed-out child.
SIGKILL == 9
\* The exit code TerminateProcess gives a timed-out child.
TerminateExitCode == 1
\* Wait's return value for a timeout or a crash.
RetCrashOrTimeout == -2
\* Wait's and ExecuteAndWait's return value for a failure to execute.
RetExecFailed == -1

(***************************************************************************)
(* Values.                                                                 *)
(***************************************************************************)
\* A null "const cStringRef *" entry of the redirects array.
NULL == "NULL"
\* A null redirects array.
NoRedirects == <<>>
\* The redirect paths the caller may pass: the empty path, a path that can
\* be opened and a path that cannot.
Paths == {"", "a", "bad"}
RedirectChoices ==
    {NoRedirects} \cup
    {<<p0, p1, p2>> : p0 \in Paths \cup {NULL}, p1 \in Paths \cup {NULL},
                      p2 \in Paths \cup {NULL}}
\* The redirects arrays of the calls that are followed through Wait: none,
\* stdout and stderr merged into one file, and a stdin that cannot be opened.
WaitRedirectChoices == {NoRedirects, <<NULL, "a", "a">>, <<"bad", NULL, NULL>>}
\* A redirects array as a function of the stream number 0..2.
Stream(r, i) == r[i + 1]

\* The Program argument, named by the state of the file it refers to:
\*   "ok"      a regular file the caller may read and execute,
\*   "noexec"  a file that exists and that the caller may not execute,
\*   "missing" no such file,
\*   "unstat"  a file below a directory the caller may not search, so that
\*             every query about it fails with EACCES.
Programs == {"ok", "noexec", "missing", "unstat"}

\* Exit codes a program (or a clone of the caller) may exit with.
ExitCodes == {0, 1, 125, 126, 127}
\* POSIX wait statuses.
ExitStatus(code) == code * 256
SignalStatus(sig, core) == sig + (IF core THEN 128 ELSE 0)
PosixProgramStatuses ==
    {ExitStatus(c) : c \in ExitCodes} \cup {SignalStatus(11, TRUE)}
\* Windows exit codes (DWORD, written as the signed 32-bit value with the
\* same bits): 0, 1, 125, 256 and the access-violation code 0xC0000005.
WinProgramStatuses == {0, 1, 125, 256, -1073741819}

\* No write to *ErrMsg.
NoWrite == "<unchanged>"

StrError(e) ==
    CASE e = "ENOENT" -> "No such file or directory"
      [] e = "EACCES" -> "Permission denied"
      [] e = "ECHILD" -> "No child processes"
      [] e = "EINTR"  -> "Interrupted system call"
      [] e = "EAGAIN" -> "Resource temporarily unavailable"
      [] e = "EMFILE" -> "Too many open files"
      [] e = "ENOMEM" -> "Cannot allocate memory"
      [] e = "0"      -> ""
      [] OTHER        -> "Unknown error"

\* Unix.hpp MakeErrMsg: prefix + ": " + StrError(errnum).
MakeErrMsg(prefix, errnum) == prefix \o ": " \o StrError(errnum)
\* MakeErrMsg (Windows): prefix + FormatMessage(GetLastError()).
WinMakeErrMsg(prefix, lasterror) == prefix \o lasterror

(***************************************************************************)
(* The file system as the engine sees it.                                  *)
(***************************************************************************)
\* open(2) / CreateFile on a redirect target.
CanOpen(file) == file # "bad"
\* errno of execve / posix_spawn on the program.
ExecErrno(prog) == IF prog = "missing" THEN "ENOENT" ELSE "EACCES"
\* fs::exists (POSIX): <<call succeeded, result>>.
FsExists(prog) ==
    CASE prog = "missing" -> [ok |-> TRUE, result |-> FALSE]
      [] prog = "unstat"  -> [ok |-> FALSE, result |-> FALSE]
      [] OTHER            -> [ok |-> TRUE, result |-> TRUE]
\* The file the program path names exists.
FileExists(prog) == prog # "missing"
\* fs::can_execute (Windows): GetFileAttributesW succeeds.
WinCanExecute(prog) == prog \in {"ok", "noexec"}

(***************************************************************************)
(* Redirection.  A call of Execute leaves a log of the files opened for    *)
(* the child, opens (each entry one open file description), and the child's*)
(* three streams: 0 is the stream inherited from the caller, n > 0 is the  *)
(* n-th entry of opens.                                                    *)
(***************************************************************************)
Inherited == [i \in 0..2 |-> 0]
NoIO == [opens |-> <<>>, streams |-> Inherited, failed |-> FALSE, msg |-> NoWrite]

OpenMode(FD) == IF FD = 0 THEN "O_RDONLY" ELSE "O_WRONLY|O_CREAT"
WinOpenMode(fd) == IF fd = 0 THEN "GENERIC_READ" ELSE "GENERIC_WRITE"

\* The file RedirectIO opens for a present path (the mutant forgets the
\* null device).
RedirectFileNoNull(Path) == Path
RedirectFile(Path) == IF Path = "" THEN "/dev/null" ELSE Path
WinRedirectFile(path) == IF path = "" THEN "NUL" ELSE path

\* stdout and stderr go to the same place (the mutant never merges them).
SamePlaceNever(r) == FALSE
SamePlace(r) == Stream(r, 1) # NULL /\ Stream(r, 2) # NULL /\ Stream(r, 1) = Stream(r, 2)

\* dup2(from, to) in the child, from and to stream numbers.
Dup2Stream(io, from, to, dup2Fails) ==
    IF dup2Fails
    THEN [io EXCEPT !.failed = TRUE,
                    !.msg = MakeErrMsg("Can't redirect stderr to stdout", "EMFILE")]
    ELSE [io EXCEPT !.streams[to] = io.streams[from]]

\* RedirectIO (POSIX, in the forked child): open the file and dup2 it onto FD.
RedirectIO(io, Path, FD, dup2Fails) ==
    IF io.failed \/ Path = NULL THEN io
    ELSE LET File == RedirectFile(Path)
         IN IF ~CanOpen(File)
            THEN [io EXCEPT !.failed = TRUE,
                            !.msg = MakeErrMsg("Cannot open file '" \o File \o "' for "
                                        \o (IF FD = 0 THEN "input" ELSE "output"), "EACCES")]
            ELSE IF dup2Fails
            THEN [io EXCEPT !.failed = TRUE, !.msg = MakeErrMsg("Cannot dup2", "EMFILE")]
            ELSE [io EXCEPT !.opens = Append(io.opens, [file |-> File, mode |-> OpenMode(FD)]),
                            !.streams[FD] = Len(io.opens) + 1]

\* The redirections of the forked child, in the order of the code.
ForkRedirect(r, dup2Fails) ==
    IF r = NoRedirects THEN NoIO
    ELSE LET io0 == RedirectIO(NoIO, Stream(r, 0), 0, dup2Fails)
             io1 == RedirectIO(io0, Stream(r, 1), 1, dup2Fails)
         IN IF io1.failed THEN io1
            ELSE IF SamePlace(r) THEN Dup2Stream(io1, 1, 2, dup2Fails)
            ELSE RedirectIO(io1, Stream(r, 2), 2, dup2Fails)

\* RedirectIO_PS: record an open as a posix_spawn file action.
RedirectIO_PS(fa, Path, FD, addFails) ==
    IF fa.failed \/ Path = NULL THEN fa
    ELSE IF addFails
    THEN [fa EXCEPT !.failed = TRUE, !.msg = MakeErrMsg("Cannot dup2", "ENOMEM")]
    ELSE [fa EXCEPT !.acts = Append(fa.acts,
                 [op |-> "open", fd |-> FD, file |-> RedirectFile(Path), mode |-> OpenMode(FD)])]

\* The file actions Execute hands to posix_spawn.
SpawnFileActions(r, addFails) ==
    LET none == [acts |-> <<>>, failed |-> FALSE, msg |-> NoWrite]
    IN IF r = NoRedirects THEN none
       ELSE LET fa0 == RedirectIO_PS(none, Stream(r, 0), 0, addFails)
                fa1 == RedirectIO_PS(fa0, Stream(r, 1), 1, addFails)
            IN IF fa1.failed THEN fa1
               ELSE IF ~SamePlace(r) THEN RedirectIO_PS(fa1, Stream(r, 2), 2, addFails)
               ELSE IF addFails
               THEN [fa1 EXCEPT !.failed = TRUE,
                                !.msg = MakeErrMsg("Can't redirect stderr to stdout", "ENOMEM")]
               ELSE [fa1 EXCEPT !.acts = Append(fa1.acts,
                                    [op |-> "dup2", fd |-> 2, file |-> "", mode |-> ""])]

\* posix_spawn performs the file actions in the new process, in order, and
\* stops at the first one that fails.
RECURSIVE PerformActions(_, _)
PerformActions(io, acts) ==
    IF acts = <<>> \/ io.failed THEN io
    ELSE LET a == Head(acts)
             next ==
                IF a.op = "dup2" THEN [io EXCEPT !.streams[2] = io.streams[1]]
                ELSE IF ~CanOpen(a.file) THEN [io EXCEPT !.failed = TRUE]
                ELSE [io EXCEPT !.opens = Append(io.opens, [file |-> a.file, mode |-> a.mode]),
                                !.streams[a.fd] = Len(io.opens) + 1]
         IN PerformActions(next, Tail(acts))

\* RedirectIO (Windows, in the caller): a handle for the child's stream fd.
WinRedirectIO(io, path, fd) ==
    IF io.failed \/ path = NULL THEN io
    ELSE LET fname == WinRedirectFile(path)
         IN IF ~CanOpen(fname)
            THEN [io EXCEPT !.failed = TRUE,
                            !.msg = WinMakeErrMsg(
                                CASE fd = 0 -> "can't redirect stdin"
                                  [] fd = 1 -> "can't redirect stdout"
                                  [] OTHER  -> "can't redirect stderr", "Access is denied.")]
            ELSE [io EXCEPT !.opens = Append(io.opens, [file |-> fname, mode |-> WinOpenMode(fd)]),
                            !.streams[fd] = Len(io.opens) + 1]

\* The handles of STARTUPINFO, in the order of the code.
WinRedirect(r) ==
    IF r = NoRedirects THEN NoIO
    ELSE LET io0 == WinRedirectIO(NoIO, Stream(r, 0), 0)
             io1 == WinRedirectIO(io0, Stream(r, 1), 1)
         IN IF io1.failed THEN io1
            ELSE IF SamePlace(r) THEN [io1 EXCEPT !.streams[2] = io1.streams[1]]
            ELSE WinRedirectIO(io1, Stream(r, 2), 2)

(***************************************************************************)
(* Execute.  Each operator gives what one call of Execute does, as a       *)
(* record: ret (the bool returned), msg (what is written to *ErrMsg),      *)
(* attempts (calls of fork / posix_spawn / CreateProcess), image (what the *)
(* new process runs, "none" when no process is left behind) and io (the    *)
(* redirections performed).  os is the response of the operating system:   *)
(* "procfail" fails the process-creation call, "dup2fail" fails dup2,      *)
(* "addfail" fails posix_spawn_file_actions_add*, "jobfail" fails the job  *)
(* object calls.                                                           *)
(***************************************************************************)
OsResponses == {"ok", "procfail", "dup2fail", "addfail", "jobfail"}

NoProcess(ret, msg, attempts, io) ==
    [ret |-> ret, msg |-> msg, attempts |-> attempts, image |-> "none", io |-> io]

\* Execute, posix_spawn strategy.  A failure inside the new process (a
\* redirect file that cannot be opened, a program that cannot be executed)
\* is reported by posix_spawn's return value when sync, and by the new
\* process exiting with 127 otherwise.
PosixSpawnExecute(prog, r, os, sync) ==
    LET fa == SpawnFileActions(r, os = "addfail")
        io == PerformActions(NoIO, fa.acts)
        setupFails == io.failed \/ prog # "ok"
    IN IF fa.failed THEN NoProcess(FALSE, fa.msg, 0, NoIO)
       ELSE IF os = "procfail"
       THEN NoProcess(FALSE, MakeErrMsg("posix_spawn failed", "EAGAIN"), 1, NoIO)
       ELSE IF setupFails /\ sync
       THEN NoProcess(FALSE, MakeErrMsg("posix_spawn failed",
                                 IF io.failed THEN "EACCES" ELSE ExecErrno(prog)), 1, io)
       ELSE [ret |-> TRUE, msg |-> NoWrite, attempts |-> 1,
             image |-> IF setupFails THEN "spawn127" ELSE "program", io |-> io]

\* Execute, fork/exec strategy.  The redirections and the exec run in the
\* forked child; "clone" is a child that returned false from Execute and
\* goes on running the caller's code.
ForkExecute(prog, r, os) ==
    IF os = "procfail"
    THEN NoProcess(FALSE, MakeErrMsg("Couldn't fork", "EAGAIN"), 1, NoIO)
    ELSE LET io == ForkRedirect(r, os = "dup2fail")
         IN [ret |-> TRUE, msg |-> NoWrite, attempts |-> 1,
             image |-> IF io.failed THEN "clone"
                       ELSE IF prog = "ok" THEN "program"
                       ELSE IF ExecErrno(prog) = "ENOENT" THEN "exec127" ELSE "exec126",
             io |-> io]

\* Execute, Windows backend.
WinExecute(prog, r, mem, os) ==
    IF ~WinCanExecute(prog) THEN NoProcess(FALSE, "program not executable", 0, NoIO)
    ELSE LET io == WinRedirect(r)
         IN IF io.failed THEN NoProcess(FALSE, io.msg, 0, io)
            ELSE IF prog # "ok" \/ os = "procfail"
            THEN NoProcess(FALSE, WinMakeErrMsg("Couldn't execute program", "Access is denied."), 1, io)
            ELSE IF mem # 0 /\ os = "jobfail"
            THEN [ret |-> FALSE,
                  msg |-> WinMakeErrMsg("Unable to set memory limit", "Access is denied."),
                  attempts |-> 1, image |-> "terminated", io |-> io]
            ELSE [ret |-> TRUE, msg |-> NoWrite, attempts |-> 1, image |-> "program", io |-> io]

(***************************************************************************)
(* Decoding of the child's status.                                         *)
(***************************************************************************)
\* Unix.hpp / <sys/wait.h>.  The mutant of WEXITSTATUS reads the low byte.
WIFEXITED(s) == s % 256 = 0
WEXITSTATUSLowByte(s) == s % 256
WEXITSTATUS(s) == (s \div 256) % 256
\* (The mutant of WIFSIGNALED sees no signal.)
WIFSIGNALEDNever(s) == FALSE
WIFSIGNALED(s) == (s % 128) \notin {0, 127}
WTERMSIG(s) == s % 128
WCOREDUMP(s) == (s \div 128) % 2 = 1
strsignal(sig) ==
    CASE sig = 9  -> "Killed"
      [] sig = 11 -> "Segmentation fault"
      [] OTHER    -> "Unknown signal"

\* The 127 -> 126 correction of builds with posix_spawn (the mutant drops
\* the existence test).
Is126NoExistsTest(result, prog, hps) == hps /\ result = ExitNotFound
Is126(result, prog, hps) ==
    hps /\ result = ExitNotFound /\ FsExists(prog).ok /\ FsExists(prog).result

\* POSIX Wait, from "Return the proper exit status" on: <<ret, msg>>.
PosixDecode(s, prog, hps) ==
    IF WIFEXITED(s)
    THEN LET r0 == WEXITSTATUS(s)
             result == IF Is126(r0, prog, hps) THEN ExitCannotExec ELSE r0
         IN IF result = ExitNotFound
            THEN [ret |-> RetExecFailed, msg |-> StrError("ENOENT")]
            ELSE IF result = ExitCannotExec
            THEN [ret |-> RetExecFailed, msg |-> "Program could not be executed"]
            ELSE [ret |-> result, msg |-> NoWrite]
    ELSE IF WIFSIGNALED(s)
    THEN [ret |-> RetCrashOrTimeout,
          msg |-> strsignal(WTERMSIG(s)) \o (IF WCOREDUMP(s) THEN " (core dumped)" ELSE "")]
    ELSE [ret |-> 0, msg |-> NoWrite]

\* The two 16-bit halves of a DWORD given as a signed 32-bit value.
HiWord(s) == (s \div 65536) % 65536
LoWord(s) == s % 65536
\* WaitAux, from "if (!status)" on: the int returned.
WinDecode(s) ==
    IF s = 0 THEN 0
    ELSE IF HiWord(s) \in {32768, 49152} THEN s        \* (status & 0xBFFF0000) == 0x80000000
    ELSE IF s % 256 # 0 THEN (HiWord(s) % 32768) * 65536 + LoWord(s)  \* status & 0x7FFFFFFF
    ELSE 1

(***************************************************************************)
(* State.                                                                  *)
(***************************************************************************)
VARIABLES
    backend,         \* "posix" or "windows": the backend compiled in
    havePosixSpawn,  \* HAVE_POSIX_SPAWN is defined (POSIX)
    sigchldIgnored,  \* the caller ignores SIGCHLD: children are never zombies (POSIX)
    calls,           \* API calls started so far; the n-th call's child has pid n
    pc,              \* where the caller is
    api,             \* "wait": ExecuteAndWait, "nowait": ExecuteNoWait
    Program,         \* arguments of the call
    redirects,
    secondsToWait,
    memoryLimit,
    errMsgGiven,     \* ErrMsg is not null
    Data,            \* ExecuteAndWait's process handle, 0 when null
    execOk,          \* what Execute returned
    ret,             \* what the call returned
    errMsg,          \* *ErrMsg
    status,          \* Wait's status
    Old,             \* Wait's saved SIGALRM disposition
    opens,           \* the files Execute opened for the child
    streams,         \* the child's standard streams
    spawnAttempts,   \* calls of fork / posix_spawn / CreateProcess in this call
    waitCalls,       \* calls of Wait in this call
    child,           \* the process this call's Execute left behind, 0 when none
    timedOut,        \* Wait took its timeout path
    killSent,        \* Wait called kill / TerminateProcess
    engineKilled,    \* that call ended a running child
    reaped,          \* the pid whose status Wait obtained, 0 when none
    lastEintr,       \* what interrupted Wait's last waitpid: "none", "alarm", "foreign"
    childImage,      \* what this call's child ran when Execute returned, "none" when no child
    ownStatus,       \* the status this call's child ended with on its own, -1 when it has not
    procs,           \* the process table: the caller's children
    sigalrm,         \* the disposition of SIGALRM
    alarmArmed,      \* an alarm is pending
    foreignSignals,  \* foreign signals delivered during this call
    \* The memory manager (Memory.cpp).
    target,          \* the build: "win", or the POSIX "generic", "arm", "applearm", "freebsd"
    PageSize,        \* page_size() (POSIX), getAllocationGranularity() (Windows)
    blocks,          \* the caller's MemoryBlocks
    mappings,        \* the mappings the OS holds for the process
    memOp,           \* the last operation and its arguments
    osCalls,         \* the OS calls the last operation made, in order
    memResult,       \* what the last operation returned
    died,            \* FatalError::Die has ended the process
    memOps,          \* the operations of the memory manager so far
    \* process::get_self (ProcessUtils).
    threadSafeStatics, \* the compiler guards the initialisation of local statics
    guard,           \* the guard of the static SP: "clear", "busy", "set"
    SP,              \* the static SP, 0 while it is not stored
    instances,       \* self_process objects constructed so far
    selfPc,          \* where each thread is in get_self
    selfRet,         \* what get_self returned to each thread
    \* Two threads in Wait (POSIX).
    wpc,             \* where each thread is in Wait
    wsecs,           \* its secondsToWait
    wOld,            \* its saved SIGALRM disposition
    wret,            \* what its Wait returned
    wreaped,         \* the pids its wait calls returned
    wtimedOut,       \* it took the timeout path
    alarmOwner,      \* the thread whose alarm() call is pending, 0 when none
    \* FatalError (Unix.hpp).
    NDEBUG,          \* the build compiles assert() away
    sInstalledHandler, \* the handler FatalError holds, "null" when none
    installs,        \* calls of InstallErrorHandler so far
    fatalPc,         \* where the caller of Die is
    dieMsg,          \* Die's error_msg
    reported,        \* the messages ReportAndDie was given
    ended,           \* how the process ended: "no", "abort", "exit"
    dieReturned,     \* Die returned to its caller
    \* argumentsFitWithinSystemLimits.
    sysconfArgMax,   \* what sysconf(_SC_ARG_MAX) answers (POSIX)
    ArgMax,          \* the function's static ArgMax: <<>> before its initialisation, then <<value>>
    Args,            \* the argument list of the calls
    limitUsed,       \* the limit the last call compared against: <<limit>>, <<>> without one
    examined,        \* the arguments the last call added up before it returned
    answers,         \* what the calls returned, in order
    \* FileOutputBuffer.
    FinalFile,       \* what is at FinalPath: nothing, a directory, or a regular file
    TempFile,        \* what is at TempPath
    fobPc,           \* the life of the buffer: "none", "live", "gone"
    Region,          \* the buffer's mapping of the temporary file is in place
    BufferSize,      \* the Size create was given
    created,         \* what create returned: "none" before the call, "ok" or "error"
    commits,         \* the calls of commit: NewSmallerSize, the buffer then, the result
    removeFailed     \* the destructor's remove returned an error

memVars == <<target, PageSize, blocks, mappings, memOp, osCalls, memResult, died, memOps>>
selfVars == <<threadSafeStatics, guard, SP, instances, selfPc, selfRet>>
waitVars == <<wpc, wsecs, wOld, wret, wreaped, wtimedOut, alarmOwner>>
fatalVars == <<NDEBUG, sInstalledHandler, installs, fatalPc, dieMsg, reported, ended, dieReturned>>
fitVars == <<sysconfArgMax, ArgMax, Args, limitUsed, examined, answers>>
fobVars == <<FinalFile, TempFile, fobPc, Region, BufferSize, created, commits, removeFailed>>
supportVars == <<fatalVars, fitVars, fobVars>>
config == <<backend, havePosixSpawn, sigchldIgnored, memVars, selfVars, waitVars, supportVars>>
args == <<api, Program, redirects, secondsToWait, memoryLimit, errMsgGiven>>
execLog == <<opens, streams, spawnAttempts>>
waitHist == <<timedOut, killSent, engineKilled, reaped, lastEintr>>
childHist == <<childImage, ownStatus>>
osState == <<procs, sigalrm, alarmArmed, foreignSignals>>
vars == <<config, calls, pc, args, Data, execOk, ret, errMsg, status, Old,
          execLog, waitCalls, child, waitHist, childHist, osState>>

Running(image) == [state |-> "running", image |-> image, status |-> 0]
Zombie(st) == [state |-> "zombie", image |-> "", status |-> st]
IsRunning(p) == p \in DOMAIN procs /\ procs[p].state = "running"
IsZombie(p) == p \in DOMAIN procs /\ procs[p].state = "zombie"
Without(p) == [q \in DOMAIN procs \ {p} |-> procs[q]]
\* Process p ends with status st: it stays in the table until it is waited
\* for, unless the caller ignores SIGCHLD.
Ended(p, st) ==
    IF backend = "posix" /\ sigchldIgnored THEN Without(p)
    ELSE [procs EXCEPT ![p] = Zombie(st)]
\* *ErrMsg after a write of msg.
Written(msg) == IF errMsgGiven /\ msg # NoWrite THEN msg ELSE errMsg

(***************************************************************************)
(* The memory manager: values, the OS, and the operations of Memory as     *)
(* operators from the arguments and the answers of the OS to what the      *)
(* operation does.                                                         *)
(***************************************************************************)
MF_READ == "MF_READ"
MF_WRITE == "MF_WRITE"
MF_EXEC == "MF_EXEC"
\* The eight values of the Flags argument.
PermissionSets == SUBSET {MF_READ, MF_WRITE, MF_EXEC}
\* size_t and uintptr_t arithmetic is modulo SizeModulus.
SizeModulus == 2 ^ SizeBits
\* The sizes asked for: none, more than a page, and one so large that
\* rounding it up wraps.
RequestSizes == {0, PageSize + 1, SizeModulus - 1}

MemoryBlock(a, sz) == [Address |-> a, Size |-> sz]
\* MemoryBlock(): Address(0), Size(0).
EmptyBlock == MemoryBlock(0, 0)
\* "M.Address == 0 || M.Size == 0" (the mutant sees no empty block).
IsEmptyBlockNever(M) == FALSE
IsEmptyBlock(M) == M.Address = 0 \/ M.Size = 0
\* The NearBlock argument: a null pointer, or a pointer to a block.
NoNear == [given |-> FALSE, base |-> 0, size |-> 0]
NearTo(M) == [given |-> TRUE, base |-> M.Address, size |-> M.Size]

\* The result of a protection-flag translation: the native protection, or
\* FatalError::Die.
Native(prot) == [fatal |-> FALSE, prot |-> prot]
PROT_NONE == {}
Die == [fatal |-> TRUE, prot |-> PROT_NONE]
\* The switch of getPosixProtectionFlags, with what its default case gives.
PosixProtection(Flags, illegal) ==
    CASE Flags = {MF_READ} -> Native({"PROT_READ"})
      [] Flags = {MF_WRITE} -> Native({"PROT_WRITE"})
      [] Flags = {MF_READ, MF_WRITE} -> Native({"PROT_READ", "PROT_WRITE"})
      [] Flags = {MF_READ, MF_EXEC} -> Native({"PROT_READ", "PROT_EXEC"})
      [] Flags = {MF_READ, MF_WRITE, MF_EXEC} ->
            Native({"PROT_READ", "PROT_WRITE", "PROT_EXEC"})
      [] Flags = {MF_EXEC} ->
            IF target = "freebsd" THEN Native({"PROT_READ", "PROT_EXEC"})
            ELSE Native({"PROT_EXEC"})
      [] OTHER -> illegal
\* (The mutant returns the default value, PROT_NONE, instead of dying.)
getPosixProtectionFlagsDowngrade(Flags) == PosixProtection(Flags, Native(PROT_NONE))
getPosixProtectionFlags(Flags) == PosixProtection(Flags, Die)
\* The switch of getWindowsProtectionFlags, with what MF_WRITE alone gives.
WindowsProtection(Flags, writeOnly) ==
    CASE Flags = {MF_READ} -> Native("PAGE_READONLY")
      [] Flags = {MF_WRITE} -> Native(writeOnly)
      [] Flags = {MF_READ, MF_WRITE} -> Native("PAGE_READWRITE")
      [] Flags = {MF_READ, MF_EXEC} -> Native("PAGE_EXECUTE_READ")
      [] Flags = {MF_READ, MF_WRITE, MF_EXEC} -> Native("PAGE_EXECUTE_READWRITE")
      [] Flags = {MF_EXEC} -> Native("PAGE_EXECUTE")
      [] OTHER -> Die
\* (The mutant does not promote MF_WRITE to read+write.)
getWindowsProtectionFlagsNoPromotion(Flags) == WindowsProtection(Flags, "PAGE_READONLY")
getWindowsProtectionFlags(Flags) == WindowsProtection(Flags, "PAGE_READWRITE")
ProtectionFlags(Flags) ==
    IF backend = "windows" THEN getWindowsProtectionFlags(Flags)
    ELSE getPosixProtectionFlags(Flags)

\* "(NumBytes+PageSize-1)/PageSize" in size_t (the mutant rounds down).
NumPagesTruncating(NumBytes) == NumBytes \div PageSize
NumPages(NumBytes) == ((NumBytes + PageSize - 1) % SizeModulus) \div PageSize
\* "PageSize*NumPages" in size_t (the mutant maps one page).
MapLengthOnePage(NumBytes) == PageSize
MapLength(NumBytes) == (PageSize * NumPages(NumBytes)) % SizeModulus
\* allocateMappedMemory's Start: the end of NearBlock, rounded up to a page
\* (the mutant ignores NearBlock).
AlignedStartNull(NearBlock) == 0
AlignedStart(NearBlock) ==
    LET Start == IF NearBlock.given
                 THEN (NearBlock.base + NearBlock.size) % SizeModulus ELSE 0
    IN IF Start # 0 /\ Start % PageSize # 0
       THEN (Start + PageSize - (Start % PageSize)) % SizeModulus
       ELSE Start
\* AllocateRWX's start (POSIX): the end of NearBlock as it is.
RWXStart(NearBlock) ==
    IF NearBlock.given THEN (NearBlock.base + NearBlock.size) % SizeModulus ELSE 0

\* An OS call of an operation, as the log keeps it.
OsCall(call, addr, len, prot, ok) ==
    [call |-> call, addr |-> addr, len |-> len, prot |-> prot, ok |-> ok]
AllocCall == IF backend = "windows" THEN "VirtualAlloc" ELSE "mmap"
ReleaseCall == IF backend = "windows" THEN "VirtualFree" ELSE "munmap"
ProtectCall == IF backend = "windows" THEN "VirtualProtect" ELSE "mprotect"
\* Memory::InvalidateInstructionCache(Addr, Len).
InvalidateInstructionCache(Addr, Length) ==
    OsCall("icache", Addr, Length, PROT_NONE, TRUE)

\* The OS: [b, b + len) is a place for a new mapping (the first and the
\* last page of the address space are never mapped).
Free(maps, b, len) ==
    /\ b >= PageSize /\ b % PageSize = 0 /\ b + len <= SizeModulus - PageSize
    /\ \A m \in maps : b + len <= m.base \/ m.base + m.len <= b
Bases(maps, len) == {b \in 1..(SizeModulus - 1) : Free(maps, b, len)}
\* The answers of the OS to an allocation: refuse, place at the hint when
\* it can, or place at the lowest free address.
AllocAnswers == {"fail", "hint", "low"}
\* mmap / VirtualAlloc: the base of the new mapping, 0 for MAP_FAILED / NULL.
\* A length of 0 is refused; VirtualAlloc at an address maps there or fails.
OsAllocate(maps, Start, len, how) ==
    IF len = 0 \/ how = "fail" \/ Bases(maps, len) = {} THEN 0
    ELSE IF Start # 0 /\ Free(maps, Start, len) /\ (how = "hint" \/ backend = "windows")
    THEN Start
    ELSE IF Start # 0 /\ backend = "windows" THEN 0
    ELSE CHOOSE b \in Bases(maps, len) : \A c \in Bases(maps, len) : b <= c
\* One allocation attempt: the call, the base and the mappings after it.
MapAttempt(maps, Start, len, prot, how) ==
    LET b == OsAllocate(maps, Start, len, how)
    IN [call |-> OsCall(AllocCall, Start, len, prot, b # 0),
        base |-> b,
        maps |-> IF b = 0 THEN maps
                 ELSE maps \cup {[base |-> b, len |-> len, prot |-> prot]}]
\* munmap(addr, len): what is mapped in [addr, addr + len) goes.
Unmapped(maps, addr, len) ==
    {[base |-> m.base, len |-> addr - m.base, prot |-> m.prot] :
        m \in {n \in maps : n.base < addr /\ addr < n.base + n.len}}
    \cup
    {[base |-> addr + len, len |-> m.base + m.len - (addr + len), prot |-> m.prot] :
        m \in {n \in maps : n.base < addr + len /\ addr + len < n.base + n.len}}
    \cup
    {m \in maps : m.base + m.len <= addr \/ addr + len <= m.base}
\* VirtualFree(addr, 0, MEM_RELEASE): the whole allocation based at addr goes.
Released(maps, addr) == {m \in maps : m.base # addr}
\* The OS can do the release: VirtualFree needs the base of an allocation.
CanRelease(maps, addr) == backend = "posix" \/ \E m \in maps : m.base = addr
\* mprotect / VirtualProtect on [addr, addr + len).
Protected(maps, addr, len, prot) ==
    {IF addr <= m.base /\ m.base + m.len <= addr + len
     THEN [m EXCEPT !.prot = prot] ELSE m : m \in maps}

\* What an operation of Memory does: the OS calls it makes, the block it
\* returns or leaves, whether it reports success, whether it wrote *ErrMsg,
\* whether it ended in FatalError::Die, and the mappings afterwards.
Outcome(cs, block, ok, msg, fatal, maps) ==
    [calls |-> cs, block |-> block, ok |-> ok, msg |-> msg, fatal |-> fatal,
     maps |-> maps]

\* Memory::allocateMappedMemory.  how1 and how2 are the answers of the OS
\* to the first and to the second attempt.
allocateMappedMemory(NumBytes, NearBlock, Flags, maps, how1, how2) ==
    IF NumBytes = 0 THEN Outcome(<<>>, EmptyBlock, TRUE, FALSE, FALSE, maps)
    ELSE LET P == ProtectionFlags(Flags)
             len == MapLength(NumBytes)
             a1 == MapAttempt(maps, AlignedStart(NearBlock), len, P.prot, how1)
             a2 == MapAttempt(maps, 0, len, P.prot, how2)
             Cache(a) == IF MF_EXEC \in Flags
                         THEN <<InvalidateInstructionCache(a.base, len)>> ELSE <<>>
             Result(a) == MemoryBlock(a.base, (NumPages(NumBytes) * PageSize) % SizeModulus)
         IN IF P.fatal THEN Outcome(<<>>, EmptyBlock, FALSE, FALSE, TRUE, maps)
            ELSE IF a1.base # 0
            THEN Outcome(<<a1.call>> \o Cache(a1), Result(a1), TRUE, FALSE, FALSE, a1.maps)
            ELSE IF ~NearBlock.given
            THEN Outcome(<<a1.call>>, EmptyBlock, FALSE, FALSE, FALSE, maps)
            ELSE IF a2.base # 0
            THEN Outcome(<<a1.call, a2.call>> \o Cache(a2), Result(a2), TRUE, FALSE, FALSE,
                         a2.maps)
            ELSE Outcome(<<a1.call, a2.call>>, EmptyBlock, FALSE, FALSE, FALSE, maps)

\* The answers of vm_protect in AllocateRWX on Apple ARM: both calls
\* succeed, the first fails, the second fails.
VmAnswers == {"ok", "maxfail", "rwfail"}
\* Memory::AllocateRWX (POSIX).  The retry without a hint passes no ErrMsg.
PosixAllocateRWX(NumBytes, NearBlock, maps, how1, how2, vm) ==
    IF NumBytes = 0 THEN Outcome(<<>>, EmptyBlock, TRUE, FALSE, FALSE, maps)
    ELSE LET len == MapLength(NumBytes)
             prot == IF target = "applearm" THEN {"PROT_READ", "PROT_EXEC"}
                     ELSE {"PROT_READ", "PROT_WRITE", "PROT_EXEC"}
             a1 == MapAttempt(maps, RWXStart(NearBlock), len, prot, how1)
             a2 == MapAttempt(maps, 0, len, prot, how2)
             Mapped(cs, a) ==
                LET max == OsCall("vm_protect", a.base, len, {"VM_PROT_READ", "VM_PROT_EXECUTE"},
                                  vm # "maxfail")
                    rw == OsCall("vm_protect", a.base, len, {"VM_PROT_READ", "VM_PROT_WRITE"},
                                 vm # "rwfail")
                    block == MemoryBlock(a.base, (NumPages(NumBytes) * PageSize) % SizeModulus)
                IN IF target # "applearm"
                   THEN Outcome(cs, block, TRUE, FALSE, FALSE, a.maps)
                   ELSE IF vm = "maxfail"
                   THEN Outcome(cs \o <<max>>, EmptyBlock, FALSE, TRUE, FALSE, a.maps)
                   ELSE IF vm = "rwfail"
                   THEN Outcome(cs \o <<max, rw>>, EmptyBlock, FALSE, TRUE, FALSE, a.maps)
                   ELSE Outcome(cs \o <<max, rw>>, block, TRUE, FALSE, FALSE,
                                Protected(a.maps, a.base, len, {"PROT_READ", "PROT_WRITE"}))
         IN IF a1.base # 0 THEN Mapped(<<a1.call>>, a1)
            ELSE IF ~NearBlock.given
            THEN Outcome(<<a1.call>>, EmptyBlock, FALSE, TRUE, FALSE, maps)
            ELSE IF a2.base # 0
            THEN LET m == Mapped(<<a1.call, a2.call>>, a2) IN [m EXCEPT !.msg = FALSE]
            ELSE Outcome(<<a1.call, a2.call>>, EmptyBlock, FALSE, FALSE, FALSE, maps)
\* Memory::AllocateRWX (Windows).
WinAllocateRWX(NumBytes, NearBlock, maps, how1, how2) ==
    LET MB == allocateMappedMemory(NumBytes, NearBlock, {MF_READ, MF_WRITE, MF_EXEC},
                                   maps, how1, how2)
    IN [MB EXCEPT !.msg = ~MB.ok]

\* Memory::releaseMappedMemory.  released: the OS does the release.
releaseMappedMemory(M, maps, released) ==
    IF IsEmptyBlock(M) THEN Outcome(<<>>, M, TRUE, FALSE, FALSE, maps)
    ELSE LET ok == released /\ CanRelease(maps, M.Address)
             call == OsCall(ReleaseCall, M.Address,
                            IF backend = "windows" THEN 0 ELSE M.Size, PROT_NONE, ok)
         IN IF ~ok THEN Outcome(<<call>>, M, FALSE, FALSE, FALSE, maps)
            ELSE Outcome(<<call>>, EmptyBlock, TRUE, FALSE, FALSE,
                         IF backend = "windows" THEN Released(maps, M.Address)
                         ELSE Unmapped(maps, M.Address, M.Size))
\* Memory::ReleaseRWX (POSIX): ok is "returns false".
PosixReleaseRWX(M, maps, released) ==
    IF IsEmptyBlock(M) THEN Outcome(<<>>, M, TRUE, FALSE, FALSE, maps)
    ELSE LET call == OsCall("munmap", M.Address, M.Size, PROT_NONE, released)
         IN IF ~released THEN Outcome(<<call>>, M, FALSE, TRUE, FALSE, maps)
            ELSE Outcome(<<call>>, M, TRUE, FALSE, FALSE, Unmapped(maps, M.Address, M.Size))
\* Memory::ReleaseRWX (Windows).
WinReleaseRWX(M, maps, released) ==
    LET r == releaseMappedMemory(M, maps, released) IN [r EXCEPT !.msg = ~r.ok]

\* Memory::protectMappedMemory.  done: the OS changes the protection.
protectMappedMemory(M, Flags, maps, done) ==
    IF IsEmptyBlock(M) THEN Outcome(<<>>, M, TRUE, FALSE, FALSE, maps)
    ELSE IF backend = "posix" /\ Flags = {} THEN Outcome(<<>>, M, FALSE, FALSE, FALSE, maps)
    ELSE LET P == ProtectionFlags(Flags)
             call == OsCall(ProtectCall, M.Address, M.Size, P.prot, done)
         IN IF P.fatal THEN Outcome(<<>>, M, FALSE, FALSE, TRUE, maps)
            ELSE IF ~done THEN Outcome(<<call>>, M, FALSE, FALSE, FALSE, maps)
            ELSE Outcome(<<call>> \o (IF MF_EXEC \in Flags
                                      THEN <<InvalidateInstructionCache(M.Address, M.Size)>>
                                      ELSE <<>>),
                         M, TRUE, FALSE, FALSE, Protected(maps, M.Address, M.Size, P.prot))

\* getProtection (Windows): VirtualQuery's Protect, "0" when it has none.
getProtection(maps, addr) ==
    IF \E m \in maps : m.base <= addr /\ addr < m.base + m.len
    THEN (CHOOSE m \in maps : m.base <= addr /\ addr < m.base + m.len).prot
    ELSE "0"
\* Memory::setRangeExecutable (Windows): the calls and the bool returned.
setRangeExecutable(Addr, Size, maps, done) ==
    LET prot == getProtection(maps, Addr)
        new == CASE prot = "PAGE_NOACCESS" -> "PAGE_EXECUTE"
                 [] prot = "PAGE_READONLY" -> "PAGE_EXECUTE_READ"
                 [] prot = "PAGE_READWRITE" -> "PAGE_EXECUTE_READWRITE"
                 [] OTHER -> prot
    IN IF prot = "0" THEN [calls |-> <<>>, ret |-> FALSE, maps |-> maps]
       ELSE [calls |-> <<InvalidateInstructionCache(Addr, Size),
                         OsCall("VirtualProtect", Addr, Size, new, done)>>,
             ret |-> done,
             maps |-> IF done THEN Protected(maps, Addr, Size, new) ELSE maps]
\* Memory::setExecutable: ok is the bool returned.
setExecutable(M, maps, done) ==
    IF backend = "windows"
    THEN LET r == setRangeExecutable(M.Address, M.Size, maps, done)
         IN \* "return MakeErrMsg(...)" returns true, as "return true" does
            Outcome(r.calls, M, TRUE, ~r.ret, FALSE, r.maps)
    ELSE IF target = "applearm"
    THEN IF IsEmptyBlock(M) THEN Outcome(<<>>, M, FALSE, FALSE, FALSE, maps)
         ELSE Outcome(<<InvalidateInstructionCache(M.Address, M.Size),
                        OsCall("vm_protect", M.Address, M.Size,
                               {"VM_PROT_READ", "VM_PROT_EXECUTE"}, done)>>,
                      M, done, FALSE, FALSE,
                      IF done THEN Protected(maps, M.Address, M.Size,
                                             {"PROT_READ", "PROT_EXEC"})
                      ELSE maps)
    ELSE IF target = "arm"
    THEN Outcome(<<InvalidateInstructionCache(M.Address, M.Size)>>, M, TRUE, FALSE, FALSE, maps)
    ELSE Outcome(<<>>, M, TRUE, FALSE, FALSE, maps)

\* The record of an operation on the caller's block i.
NoMemOp ==
    [op |-> "none", i |-> 0, NumBytes |-> 0, near |-> NoNear, Flags |-> {},
     before |-> EmptyBlock, maps |-> {}]
MemOp(op, i, NumBytes, NearBlock, Flags) ==
    [op |-> op, i |-> i, NumBytes |-> NumBytes, near |-> NearBlock, Flags |-> Flags,
     before |-> blocks[i], maps |-> mappings]
NoMemResult == [ok |-> TRUE, block |-> EmptyBlock, msg |-> FALSE]
\* The NearBlock argument: null (0) or a pointer to the caller's block j.
NearArg(j) == IF j = 0 THEN NoNear ELSE NearTo(blocks[j])
\* The caller's block i is backed by a mapping.
Held(i) == \E m \in mappings : m.base = blocks[i].Address

(***************************************************************************)
(* FatalError (FatalError.hpp, SystemSpecific/Unix.hpp).                   *)
(***************************************************************************)
\* The handlers a caller can install: a null pointer, the default
\* cAssertingErrorHandler, a handler whose ReportAndDie ends the process
\* itself, and a handler whose ReportAndDie returns.
Handlers == {"null", "cAssertingErrorHandler", "exits", "returns"}
\* The messages Die is called with.
Messages == {"Invalid Type", "unknown zlib return status!"}
\* How ReportAndDie of handler h ends.  cAssertingErrorHandler:
\* "assert(false); exit(1);", where assert aborts unless NDEBUG is defined.
ReportAndDie(h) ==
    CASE h = "cAssertingErrorHandler" -> IF NDEBUG THEN "exit" ELSE "abort"
      [] h = "exits" -> "exit"
      [] h = "returns" -> "return"
\* The mutant's Die ends with a return instead of exit(1).
DieEpilogueReturns == "return"
\* The statement of Die after the call of the handler: "exit(1);".
DieEpilogue == "exit"
\* No fatal error yet: FatalError holds the handler its definition gives it.
FatalIdle ==
    /\ NDEBUG = FALSE
    /\ sInstalledHandler = "cAssertingErrorHandler"
    /\ installs = 0
    /\ fatalPc = "running"
    /\ dieMsg = ""
    /\ reported = <<>>
    /\ ended = "no"
    /\ dieReturned = FALSE

(***************************************************************************)
(* argumentsFitWithinSystemLimits (SystemError.cpp).  An argument is a     *)
(* sequence of characters.                                                 *)
(***************************************************************************)
Quote == "\""
Backslash == "\\"
\* The argument strings of the model: empty, plain, and with the characters
\* the Windows backend quotes and escapes.
ArgStrings ==
    {<<>>, <<"a">>, <<"a", "a">>, <<Quote>>, <<Backslash>>, <<Backslash, Quote>>,
     <<"a", " ">>}
\* strpbrk's set in ArgNeedsQuotes, as far as ArgStrings has its characters.
QuotedChars == {" ", Quote, Backslash}
strlen(Str) == Len(Str)
ArgNeedsQuotes(Str) == Str = <<>> \/ \E i \in 1..Len(Str) : Str[i] \in QuotedChars
\* The backslashes that end just before position Cur of Str.
RECURSIVE CountPrecedingBackslashes(_, _)
CountPrecedingBackslashes(Str, Cur) ==
    IF Cur > 1 /\ Str[Cur - 1] = Backslash
    THEN 1 + CountPrecedingBackslashes(Str, Cur - 1)
    ELSE 0
\* The loop of ArgLenWithQuotes from position i on.
RECURSIVE ArgLenFrom(_, _)
ArgLenFrom(Str, i) ==
    IF i > Len(Str) THEN 0
    ELSE (IF Str[i] = Quote THEN CountPrecedingBackslashes(Str, i) + 1 ELSE 0)
         + 1 + ArgLenFrom(Str, i + 1)
\* The mutant counts the characters of the argument only.
ArgLenPlain(Str) == Len(Str)
ArgLenWithQuotes(Str) ==
    (IF ArgNeedsQuotes(Str) THEN 2 ELSE 0) + ArgLenFrom(Str, 1)
    + (IF ArgNeedsQuotes(Str)
       THEN CountPrecedingBackslashes(Str, Len(Str) + 1) + 1 ELSE 0)
\* n backslashes.
Backslashes(n) == [i \in 1..n |-> Backslash]
\* What Execute of the Windows backend appends to the command line for the
\* characters of Str from position i on.
RECURSIVE EscapedFrom(_, _)
EscapedFrom(Str, i) ==
    IF i > Len(Str) THEN <<>>
    ELSE (IF Str[i] = Quote
          THEN Backslashes(CountPrecedingBackslashes(Str, i)) \o <<Backslash>>
          ELSE <<>>)
         \o <<Str[i]>> \o EscapedFrom(Str, i + 1)
\* ... and for the whole argument, the separating blank included.
CommandLineArg(Str) ==
    (IF ArgNeedsQuotes(Str) THEN <<Quote>> ELSE <<>>)
    \o EscapedFrom(Str, 1)
    \o (IF ArgNeedsQuotes(Str)
        THEN Backslashes(CountPrecedingBackslashes(Str, Len(Str) + 1)) \o <<Quote>>
        ELSE <<>>)
    \o <<" ">>
\* MaxCommandStringLength of the Windows backend, 32768, scaled down to the
\* lengths of the model's argument lists.
MaxCommandStringLength == 32768 \div (2 ^ 12)
\* The answers of sysconf(_SC_ARG_MAX): no limit, or a limit.
SysconfAnswers == {-1, 5, 12}
\* The loop of argumentsFitWithinSystemLimits from argument I on: the
\* answer and the number of arguments added up.  Lengths[I] is what the
\* backend adds for argument I.
RECURSIVE FitLoop(_, _, _, _)
FitLoop(Lengths, I, ArgLength, Limit) ==
    IF I > Len(Lengths) THEN [ret |-> TRUE, examined |-> I - 1]
    ELSE IF ArgLength + Lengths[I] > Limit THEN [ret |-> FALSE, examined |-> I]
    ELSE FitLoop(Lengths, I + 1, ArgLength + Lengths[I], Limit)
\* The POSIX function.  Static is ArgMax before the call, Sys what sysconf
\* answers when the static is initialised: the answer, ArgMax afterwards,
\* the limit compared against.
PosixArgumentsFit(List, Static, Sys) ==
    LET Initialised == IF Static = <<>> THEN Sys ELSE Static[1]
        Halved == Initialised \div 2
        Loop == FitLoop([I \in 1..Len(List) |-> strlen(List[I]) + 1], 1, 0, Halved)
    IN  IF Initialised = -1
        THEN [ret |-> TRUE, examined |-> 0, ArgMax |-> <<Initialised>>, limit |-> <<>>]
        ELSE [ret |-> Loop.ret, examined |-> Loop.examined, ArgMax |-> <<Halved>>,
              limit |-> <<Halved>>]
\* The Windows function.
WindowsArgumentsFit(List) ==
    LET Loop == FitLoop([I \in 1..Len(List) |-> ArgLenWithQuotes(List[I]) + 1], 1, 0,
                        MaxCommandStringLength)
    IN  [ret |-> Loop.ret, examined |-> Loop.examined, ArgMax |-> <<>>,
         limit |-> <<MaxCommandStringLength>>]
\* No call of argumentsFitWithinSystemLimits yet.
FitIdle ==
    /\ sysconfArgMax = -1
    /\ ArgMax = <<>>
    /\ Args = <<>>
    /\ limitUsed = <<>>
    /\ examined = 0
    /\ answers = <<>>

(***************************************************************************)
(* FileOutputBuffer (FileOutputBuffer.cpp) and the two files it works on.  *)
(***************************************************************************)
\* The content of a new file of n bytes (ftruncate fills it with zeros).
Zeros(n) == [i \in 1..n |-> 0]
\* The first n bytes of content.
Truncated(content, n) == IF n >= Len(content) THEN content ELSE SubSeq(content, 1, n)
\* A path with no file, with a directory, with a regular file.
Absent == [kind |-> "absent", content |-> <<>>]
Directory == [kind |-> "directory", content |-> <<>>]
Regular(content) == [kind |-> "regular", content |-> content]
\* The answers of the OS to FileOutputBuffer::create, one for each call that
\* can fail once the status of FilePath has been accepted.
CreateAnswers == {"ok", "remove fails", "createUniqueFile fails", "mapping fails"}
\* FileOutputBuffer::create(FilePath, Size, Result): what it returns, the
\* two files afterwards, and whether Result holds a buffer with a mapping.
\* Grown tells whether a mapping that failed had grown the file before.
create(Final, Sz, os, Grown) ==
    IF Final.kind = "directory"
    THEN [ret |-> "error", Final |-> Final, Temp |-> Absent, Region |-> FALSE]
    ELSE IF os = "remove fails" /\ Final.kind = "regular"
    THEN [ret |-> "error", Final |-> Final, Temp |-> Absent, Region |-> FALSE]
    ELSE IF os = "createUniqueFile fails"
    THEN [ret |-> "error", Final |-> Absent, Temp |-> Absent, Region |-> FALSE]
    ELSE IF os = "mapping fails"
    THEN [ret |-> "error", Final |-> Absent,
          Temp |-> Regular(IF Grown THEN Zeros(Sz) ELSE <<>>), Region |-> FALSE]
    ELSE [ret |-> "ok", Final |-> Absent, Temp |-> Regular(Zeros(Sz)), Region |-> TRUE]
\* The answers of the OS to commit: to resize_file and to rename.
CommitAnswers == {"ok", "resize fails", "rename fails"}
\* FileOutputBuffer::commit(NewSmallerSize) once the Region is reset.
commit(Final, Temp, NewSmallerSize, os) ==
    LET Resized == IF NewSmallerSize = -1 THEN Temp
                   ELSE Regular(Truncated(Temp.content, NewSmallerSize))
    IN  IF NewSmallerSize # -1 /\ (Temp.kind = "absent" \/ os = "resize fails")
        THEN [ret |-> "error", Final |-> Final, Temp |-> Temp]
        ELSE IF Temp.kind = "absent" \/ os = "rename fails"
        THEN [ret |-> "error", Final |-> Final, Temp |-> Resized]
        ELSE [ret |-> "ok", Final |-> Resized, Temp |-> Absent]
\* The destructor's sys::fs::remove(TempPath) fails: on Windows the
\* temporary file was created without FILE_SHARE_DELETE and a view that is
\* still mapped keeps it open.
RemoveRefused(Temp, Mapped) == Temp.kind = "regular" /\ backend = "windows" /\ Mapped
\* No FileOutputBuffer yet.
FobIdle ==
    /\ FinalFile = Absent
    /\ TempFile = Absent
    /\ fobPc = "none"
    /\ Region = FALSE
    /\ BufferSize = 0
    /\ created = "none"
    /\ commits = <<>>
    /\ removeFailed = FALSE
\* FatalError, argumentsFitWithinSystemLimits and FileOutputBuffer unused.
SupportIdle == FatalIdle /\ FitIdle /\ FobIdle


\* The process engine before its first call.
InitProcess ==
    /\ backend \in {"posix", "windows"}
    /\ havePosixSpawn \in BOOLEAN
    /\ sigchldIgnored \in BOOLEAN
    /\ backend = "windows" => ~havePosixSpawn /\ ~sigchldIgnored
    /\ calls = 0
    /\ pc = "idle"
    /\ api = "wait"
    /\ Program = "ok"
    /\ redirects = NoRedirects
    /\ secondsToWait = 0
    /\ memoryLimit = 0
    /\ errMsgGiven = FALSE
    /\ Data = 0
    /\ execOk = FALSE
    /\ ret = 0
    /\ errMsg = ""
    /\ status = 0
    /\ Old = "SIG_DFL"
    /\ opens = <<>>
    /\ streams = Inherited
    /\ spawnAttempts = 0
    /\ waitCalls = 0
    /\ child = 0
    /\ timedOut = FALSE
    /\ killSent = FALSE
    /\ engineKilled = FALSE
    /\ reaped = 0
    /\ lastEintr = "none"
    /\ childImage = "none"
    /\ ownStatus = -1
    /\ procs = <<>>
    /\ sigalrm = "SIG_DFL"
    /\ alarmArmed = FALSE
    /\ foreignSignals = 0
\* The memory manager before its first operation.
MemoryIdle ==
    /\ blocks = [i \in 1..MaxBlocks |-> EmptyBlock]
    /\ mappings = {}
    /\ memOp = NoMemOp
    /\ osCalls = <<>>
    /\ memResult = NoMemResult
    /\ died = FALSE
    /\ memOps = 0
\* The threads that call get_self.
Threads == 1..MaxThreads
\* get_self before its first call.
SelfIdle ==
    /\ guard = "clear"
    /\ SP = 0
    /\ instances = 0
    /\ selfPc = [t \in Threads |-> "start"]
    /\ selfRet = [t \in Threads |-> 0]
\* The threads that call Wait at the same time.
Waiters == {1, 2}
\* No thread is in Wait.
WaitIdle ==
    /\ wpc = [t \in Waiters |-> "idle"]
    /\ wsecs = [t \in Waiters |-> 0]
    /\ wOld = [t \in Waiters |-> "SIG_DFL"]
    /\ wret = [t \in Waiters |-> "none"]
    /\ wreaped = [t \in Waiters |-> {}]
    /\ wtimedOut = [t \in Waiters |-> 0]
    /\ alarmOwner = 0
\* The builds the memory manager has.
Targets == IF backend = "windows" THEN {"win"} ELSE {"generic", "arm", "applearm", "freebsd"}
PageSizes == {4}

Init ==
    /\ InitProcess
    /\ SupportIdle
    /\ target = (IF backend = "windows" THEN "win" ELSE "generic")
    /\ PageSize = 4
    /\ MemoryIdle
    /\ threadSafeStatics = TRUE
    /\ SelfIdle
    /\ WaitIdle

InitMemory ==
    /\ InitProcess /\ ~havePosixSpawn /\ ~sigchldIgnored
    /\ SupportIdle
    /\ target \in Targets
    /\ PageSize \in PageSizes
    /\ MemoryIdle
    /\ threadSafeStatics = TRUE
    /\ SelfIdle
    /\ WaitIdle

(***************************************************************************)
(* sys::ExecuteAndWait and sys::ExecuteNoWait.                             *)
(***************************************************************************)
\* The caller calls ExecuteAndWait (a = "wait") or ExecuteNoWait.
StartCall(a, prog, r, secs, mem, em) ==
    /\ pc = "idle"
    /\ calls < MaxCalls
    /\ a = "nowait" => secs = 0
    /\ calls' = calls + 1
    /\ pc' = "Execute"
    /\ api' = a
    /\ Program' = prog
    /\ redirects' = r
    /\ secondsToWait' = secs
    /\ memoryLimit' = mem
    /\ errMsgGiven' = em
    /\ UNCHANGED <<config, childHist, Data, execOk, ret, errMsg, status, Old, execLog,
                   waitCalls, child, waitHist, osState>>

\* The call has returned and its result has been used: the caller's frame
\* holds nothing of it any more.
Return ==
    /\ pc = "done"
    /\ pc' = "idle"
    /\ api' = "wait"
    /\ Program' = "ok"
    /\ redirects' = NoRedirects
    /\ secondsToWait' = 0
    /\ memoryLimit' = 0
    /\ errMsgGiven' = FALSE
    /\ Data' = 0
    /\ execOk' = FALSE
    /\ ret' = 0
    /\ errMsg' = ""
    /\ status' = 0
    /\ Old' = "SIG_DFL"
    /\ opens' = <<>>
    /\ streams' = Inherited
    /\ spawnAttempts' = 0
    /\ waitCalls' = 0
    /\ child' = 0
    /\ timedOut' = FALSE
    /\ killSent' = FALSE
    /\ engineKilled' = FALSE
    /\ reaped' = 0
    /\ lastEintr' = "none"
    /\ childImage' = "none"
    /\ ownStatus' = -1
    /\ foreignSignals' = 0
    /\ UNCHANGED <<config, calls, procs, sigalrm, alarmArmed>>

\* The effect of a call of Execute that does e.
Executed(e) ==
    /\ pc' = "Executed"
    /\ execOk' = e.ret
    /\ errMsg' = Written(e.msg)
    /\ opens' = e.io.opens
    /\ streams' = e.io.streams
    /\ spawnAttempts' = e.attempts
    /\ child' = IF e.image = "none" THEN 0 ELSE calls
    /\ childImage' = e.image
    /\ Data' = IF e.image # "none" /\ api = "wait" THEN calls ELSE 0
    /\ procs' = IF e.image = "none" THEN procs
                ELSE IF e.image = "terminated"
                THEN procs @@ (calls :> Zombie(TerminateExitCode))
                ELSE procs @@ (calls :> Running(e.image))
    /\ UNCHANGED <<config, ownStatus, calls, args, ret, status, Old, waitCalls,
                   waitHist, sigalrm, alarmArmed, foreignSignals>>

UsesPosixSpawn == havePosixSpawn /\ memoryLimit = 0

ExecutePosixSpawn ==
    /\ pc = "Execute" /\ backend = "posix" /\ UsesPosixSpawn
    /\ \E os \in OsResponses \ {"dup2fail", "jobfail"}, sync \in BOOLEAN :
          Executed(PosixSpawnExecute(Program, redirects, os, sync))

ExecuteFork ==
    /\ pc = "Execute" /\ backend = "posix" /\ ~UsesPosixSpawn
    /\ \E os \in OsResponses \ {"addfail", "jobfail"} :
          Executed(ForkExecute(Program, redirects, os))

ExecuteWindows ==
    /\ pc = "Execute" /\ backend = "windows"
    /\ \E os \in OsResponses \ {"addfail", "dup2fail"} :
          Executed(WinExecute(Program, redirects, memoryLimit, os))

\* Execute has returned: ExecuteAndWait calls Wait or returns -1,
\* ExecuteNoWait returns.  Execute's arguments and its log end here.
AfterExecute ==
    /\ pc = "Executed"
    /\ IF api = "wait" /\ execOk
       THEN pc' = "Wait" /\ waitCalls' = waitCalls + 1 /\ ret' = ret
       ELSE /\ pc' = "done"
            /\ waitCalls' = waitCalls
            /\ ret' = IF api = "wait" THEN RetExecFailed ELSE ret
    /\ redirects' = NoRedirects
    /\ memoryLimit' = 0
    /\ opens' = <<>>
    /\ streams' = Inherited
    /\ UNCHANGED <<config, childHist, calls, api, Program, secondsToWait, errMsgGiven, Data,
                   execOk, errMsg, status, Old, spawnAttempts, child, waitHist, osState>>

(***************************************************************************)
(* The children.                                                           *)
(***************************************************************************)
\* The statuses a running process may end with on its own.
OwnStatuses(p) ==
    LET image == procs[p].image
    IN IF backend = "windows" THEN WinProgramStatuses
       ELSE CASE image = "exec127"  -> {ExitStatus(ExitNotFound)}
              [] image = "exec126"  -> {ExitStatus(ExitCannotExec)}
              [] image = "spawn127" -> {ExitStatus(127)}
              [] image = "clone"    -> {ExitStatus(c) : c \in ExitCodes}
              [] OTHER              -> PosixProgramStatuses

\* A child ends on its own.
ChildExits(p, st) ==
    /\ IsRunning(p)
    /\ st \in OwnStatuses(p)
    /\ procs' = Ended(p, st)
    /\ ownStatus' = IF p = child THEN st ELSE ownStatus
    /\ UNCHANGED <<config, childImage, calls, pc, args, Data, execOk, ret, errMsg, status, Old,
                   execLog, waitCalls, child, waitHist, sigalrm, alarmArmed,
                   foreignSignals>>

(***************************************************************************)
(* Wait, POSIX backend.                                                    *)
(***************************************************************************)
\* "Install a timeout handler": sigaction and alarm when secondsToWait # 0.
WaitInstall ==
    /\ pc = "Wait" /\ backend = "posix"
    /\ pc' = "waitpid"
    /\ IF secondsToWait # 0
       THEN Old' = sigalrm /\ sigalrm' = "TimeOutHandler" /\ alarmArmed' = TRUE
       ELSE UNCHANGED <<Old, sigalrm, alarmArmed>>
    /\ UNCHANGED <<config, childHist, calls, args, Data, execOk, ret, errMsg, status, execLog,
                   waitCalls, child, waitHist, procs, foreignSignals>>

\* waitpid(pid, &status, 0) returns the child.
WaitpidReaps ==
    /\ pc = "waitpid"
    /\ IsZombie(Data)
    /\ status' = procs[Data].status
    /\ procs' = Without(Data)
    /\ reaped' = Data
    /\ pc' = "decode"
    /\ UNCHANGED <<config, childHist, calls, args, Data, execOk, ret, errMsg, Old, execLog,
                   waitCalls, child, timedOut, killSent, engineKilled, lastEintr,
                   sigalrm, alarmArmed, foreignSignals>>

\* waitpid fails with ECHILD: the caller has no such child.
\* "else if (errno != EINTR)": return -1.
WaitpidFails ==
    /\ pc = "waitpid"
    /\ Data \notin DOMAIN procs
    /\ errMsg' = Written(MakeErrMsg("Error waiting for child process", "ECHILD"))
    /\ ret' = RetExecFailed
    /\ pc' = "done"
    /\ UNCHANGED <<config, childHist, calls, args, Data, execOk, status, Old, execLog,
                   waitCalls, child, waitHist, osState>>

\* waitpid fails with EINTR, interrupted by the pending alarm ("alarm") or
\* by another signal the caller handles ("foreign"), while the child runs.
\* "if (secondsToWait && errno == EINTR)": go on to kill the child;
\* otherwise call waitpid again.
WaitpidInterrupted(by) ==
    /\ pc = "waitpid"
    /\ IsRunning(Data)
    /\ IF by = "alarm"
       THEN /\ alarmArmed /\ sigalrm = "TimeOutHandler"
            /\ alarmArmed' = FALSE
            /\ foreignSignals' = foreignSignals
       ELSE /\ foreignSignals < MaxForeignSignals
            /\ foreignSignals' = foreignSignals + 1
            /\ alarmArmed' = alarmArmed
    /\ lastEintr' = by
    /\ IF secondsToWait # 0
       THEN pc' = "kill" /\ timedOut' = TRUE
       ELSE pc' = "waitpid" /\ timedOut' = timedOut
    /\ UNCHANGED <<config, childHist, calls, args, Data, execOk, ret, errMsg, status, Old,
                   execLog, waitCalls, child, killSent, engineKilled, reaped,
                   procs, sigalrm>>

\* "Kill the child", "Turn off the alarm and restore the signal handler".
WaitKill ==
    /\ pc = "kill"
    /\ killSent' = TRUE
    /\ engineKilled' = IsRunning(Data)
    /\ procs' = IF IsRunning(Data) THEN Ended(Data, SignalStatus(SIGKILL, FALSE)) ELSE procs
    /\ alarmArmed' = FALSE
    /\ sigalrm' = Old
    /\ pc' = "finalwait"
    /\ UNCHANGED <<config, childHist, calls, args, Data, execOk, ret, errMsg, status, Old,
                   execLog, waitCalls, child, timedOut, reaped, lastEintr,
                   foreignSignals>>

\* "Wait for child to die": wait(&status) returns q, a child of the caller
\* that has ended (any of them), and Wait returns -2.
WaitFinalReaps(q) ==
    /\ pc = "finalwait"
    /\ IsZombie(q)
    /\ status' = procs[q].status
    /\ procs' = Without(q)
    /\ reaped' = q
    /\ errMsg' = Written(IF q # Data
                         THEN MakeErrMsg("Child timed out but wouldn't die", "EINTR")
                         ELSE MakeErrMsg("Child timed out", "0"))
    /\ ret' = RetCrashOrTimeout
    /\ pc' = "done"
    /\ UNCHANGED <<config, childHist, calls, args, Data, execOk, Old, execLog, waitCalls, child,
                   timedOut, killSent, engineKilled, lastEintr, sigalrm, alarmArmed,
                   foreignSignals>>

\* wait(&status) fails: with ECHILD when the caller has no children, with
\* EINTR when a foreign signal interrupts it; Wait returns -2.
WaitFinalFails(e) ==
    /\ pc = "finalwait"
    /\ IF e = "ECHILD"
       THEN DOMAIN procs = {} /\ foreignSignals' = foreignSignals
       ELSE /\ e = "EINTR"
            /\ DOMAIN procs # {} /\ \A q \in DOMAIN procs : ~IsZombie(q)
            /\ foreignSignals < MaxForeignSignals
            /\ foreignSignals' = foreignSignals + 1
    /\ errMsg' = Written(MakeErrMsg("Child timed out but wouldn't die", e))
    /\ ret' = RetCrashOrTimeout
    /\ pc' = "done"
    /\ UNCHANGED <<config, childHist, calls, args, Data, execOk, status, Old, execLog, waitCalls,
                   child, waitHist, procs, sigalrm, alarmArmed>>

\* "We exited normally without timeout, so turn off the timer", then
\* "Return the proper exit status".
WaitDecode ==
    /\ pc = "decode"
    /\ IF secondsToWait # 0
       THEN alarmArmed' = FALSE /\ sigalrm' = Old
       ELSE UNCHANGED <<alarmArmed, sigalrm>>
    /\ LET d == PosixDecode(status, Program, havePosixSpawn)
       IN ret' = d.ret /\ errMsg' = Written(d.msg)
    /\ pc' = "done"
    /\ UNCHANGED <<config, childHist, calls, args, Data, execOk, status, Old, execLog, waitCalls,
                   child, waitHist, procs, foreignSignals>>

(***************************************************************************)
(* WaitAux and Wait, Windows backend.                                      *)
(***************************************************************************)
\* WaitForSingleObject(hProcess, millisecondsToWait).
WinWaitFirst ==
    /\ pc = "Wait" /\ backend = "windows"
    /\ \/ IsZombie(Data) /\ pc' = "GetExitCodeProcess" /\ timedOut' = timedOut
       \/ secondsToWait > 0 /\ IsRunning(Data)
             /\ pc' = "TerminateProcess" /\ timedOut' = TRUE
    /\ UNCHANGED <<config, childHist, calls, args, Data, execOk, ret, errMsg, status, Old,
                   execLog, waitCalls, child, killSent, engineKilled, reaped,
                   lastEintr, osState>>

\* TerminateProcess(hProcess, 1) ends the child.
WinTerminate ==
    /\ pc = "TerminateProcess"
    /\ IsRunning(Data)
    /\ killSent' = TRUE
    /\ engineKilled' = TRUE
    /\ procs' = Ended(Data, TerminateExitCode)
    /\ pc' = "WaitInfinite"
    /\ UNCHANGED <<config, childHist, calls, args, Data, execOk, ret, errMsg, status, Old,
                   execLog, waitCalls, child, timedOut, reaped, lastEintr, sigalrm,
                   alarmArmed, foreignSignals>>

\* TerminateProcess fails, the child having ended: WaitAux returns -2, and
\* Wait closes the handle and clears Data.
WinTerminateFails ==
    /\ pc = "TerminateProcess"
    /\ IsZombie(Data)
    /\ killSent' = TRUE
    /\ errMsg' = Written(WinMakeErrMsg("Failed to terminate timed-out program.",
                                       "Access is denied."))
    /\ ret' = RetCrashOrTimeout
    /\ procs' = Without(Data)
    /\ Data' = 0
    /\ pc' = "done"
    /\ UNCHANGED <<config, childHist, calls, args, execOk, status, Old, execLog, waitCalls,
                   child, timedOut, engineKilled, reaped, lastEintr, sigalrm,
                   alarmArmed, foreignSignals>>

\* WaitForSingleObject(hProcess, INFINITE).
WinWaitInfinite ==
    /\ pc = "WaitInfinite"
    /\ IsZombie(Data)
    /\ pc' = "GetExitCodeProcess"
    /\ UNCHANGED <<config, childHist, calls, args, Data, execOk, ret, errMsg, status, Old,
                   execLog, waitCalls, child, waitHist, osState>>

\* GetExitCodeProcess (rc is what it returns) and the decoding of the
\* status; then Wait closes the handle and clears Data.
WinGetExitCode(rc) ==
    /\ pc = "GetExitCodeProcess"
    /\ IF rc
       THEN /\ status' = procs[Data].status
            /\ reaped' = Data
            /\ ret' = WinDecode(procs[Data].status)
            /\ errMsg' = errMsg
       ELSE /\ status' = status
            /\ reaped' = reaped
            /\ ret' = RetCrashOrTimeout
            /\ errMsg' = Written(WinMakeErrMsg("Failed getting status for program.",
                                               "Access is denied."))
    /\ procs' = Without(Data)
    /\ Data' = 0
    /\ pc' = "done"
    /\ UNCHANGED <<config, childHist, calls, args, execOk, Old, execLog, waitCalls, child,
                   timedOut, killSent, engineKilled, lastEintr, sigalrm, alarmArmed,
                   foreignSignals>>

(***************************************************************************)
(* The specification.                                                      *)
(***************************************************************************)
Next ==
    \/ /\ pc = "idle" /\ calls < MaxCalls
       /\ \E a \in {"wait", "nowait"}, prog \in Programs, r \in WaitRedirectChoices,
             secs \in {0, 1}, mem \in {0, 1}, em \in BOOLEAN :
             StartCall(a, prog, r, secs, mem, em)
    \/ Return
    \/ ExecutePosixSpawn
    \/ ExecuteFork
    \/ ExecuteWindows
    \/ AfterExecute
    \/ \E p \in DOMAIN procs, st \in PosixProgramStatuses \cup WinProgramStatuses :
          ChildExits(p, st)
    \/ WaitInstall
    \/ WaitpidReaps
    \/ WaitpidFails
    \/ \E by \in {"alarm", "foreign"} : WaitpidInterrupted(by)
    \/ WaitKill
    \/ \E q \in DOMAIN procs : WaitFinalReaps(q)
    \/ \E e \in {"ECHILD", "EINTR"} : WaitFinalFails(e)
    \/ WaitDecode
    \/ WinWaitFirst
    \/ WinTerminate
    \/ WinTerminateFails
    \/ WinWaitInfinite
    \/ \E rc \in BOOLEAN : WinGetExitCode(rc)

Spec == Init /\ [][Next]_vars

\* One call of Execute, over every redirects array.
NextExec ==
    \/ /\ pc = "idle" /\ calls = 0
       /\ \E a \in {"wait", "nowait"}, prog \in Programs, r \in RedirectChoices,
             mem \in {0, 1}, em \in BOOLEAN :
             StartCall(a, prog, r, 0, mem, em)
    \/ ExecutePosixSpawn
    \/ ExecuteFork
    \/ ExecuteWindows

SpecExec == Init /\ [][NextExec]_vars

(***************************************************************************)
(* The memory manager: the caller's operations.                            *)
(***************************************************************************)
\* An operation with outcome o returns: block i of the caller is what the
\* operation returned (an allocation) or left (the others).
Performed(op, i, o) ==
    /\ memOp' = op
    /\ osCalls' = o.calls
    /\ memResult' = [ok |-> o.ok, block |-> o.block, msg |-> o.msg]
    /\ died' = o.fatal
    /\ memOps' = memOps + 1
    /\ mappings' = o.maps
    /\ blocks' = IF o.fatal THEN blocks ELSE [blocks EXCEPT ![i] = o.block]
    /\ UNCHANGED <<supportVars, backend, havePosixSpawn, sigchldIgnored, target, PageSize,
                   selfVars, waitVars, calls, pc, args, Data, execOk, ret, errMsg,
                   status, Old, execLog, waitCalls, child, waitHist, childHist, osState>>

\* The caller makes its next operation once it has taken the result of the
\* last one, unless the process has died.
CanOperate == ~died /\ memOp = NoMemOp /\ memOps < MaxMemOps
\* The caller keeps a new allocation in its first block that holds none.
FreeBlocks == {i \in 1..MaxBlocks : ~Held(i)}
LowestFree == IF FreeBlocks = {} THEN 0 ELSE CHOOSE i \in FreeBlocks : \A j \in FreeBlocks : i <= j

\* The caller takes the result of the operation.
TakeResult ==
    /\ ~died /\ memOp # NoMemOp
    /\ memOp' = NoMemOp
    /\ osCalls' = <<>>
    /\ memResult' = NoMemResult
    /\ UNCHANGED <<supportVars, backend, havePosixSpawn, sigchldIgnored, target, PageSize, blocks,
                   mappings, died, memOps, selfVars, waitVars, calls, pc, args, Data,
                   execOk, ret, errMsg, status, Old, execLog, waitCalls, child,
                   waitHist, childHist, osState>>

\* blocks[i] = Memory::allocateMappedMemory(NumBytes, near, Flags, EC).
AllocateMapped(i, NumBytes, near, Flags, how1, how2) ==
    /\ CanOperate /\ i = LowestFree /\ near # i
    /\ Performed(MemOp("allocateMappedMemory", i, NumBytes, NearArg(near), Flags), i,
                 allocateMappedMemory(NumBytes, NearArg(near), Flags, mappings, how1, how2))

\* blocks[i] = Memory::AllocateRWX(NumBytes, near, ErrMsg).
AllocateRWX(i, NumBytes, near, how1, how2, vm) ==
    /\ CanOperate /\ i = LowestFree /\ near # i
    /\ Performed(MemOp("AllocateRWX", i, NumBytes, NearArg(near), {MF_READ, MF_WRITE, MF_EXEC}), i,
                 IF backend = "windows"
                 THEN WinAllocateRWX(NumBytes, NearArg(near), mappings, how1, how2)
                 ELSE PosixAllocateRWX(NumBytes, NearArg(near), mappings, how1, how2, vm))

\* Memory::releaseMappedMemory(blocks[i]).
ReleaseMapped(i, released) ==
    /\ CanOperate
    /\ Performed(MemOp("releaseMappedMemory", i, 0, NoNear, {}), i,
                 releaseMappedMemory(blocks[i], mappings, released))

\* Memory::ReleaseRWX(blocks[i], ErrMsg).
ReleaseRWX(i, released) ==
    /\ CanOperate
    /\ Performed(MemOp("ReleaseRWX", i, 0, NoNear, {}), i,
                 IF backend = "windows" THEN WinReleaseRWX(blocks[i], mappings, released)
                 ELSE PosixReleaseRWX(blocks[i], mappings, released))

\* Memory::protectMappedMemory(blocks[i], Flags).
ProtectMapped(i, Flags, done) ==
    /\ CanOperate
    /\ Performed(MemOp("protectMappedMemory", i, 0, NoNear, Flags), i,
                 protectMappedMemory(blocks[i], Flags, mappings, done))

\* Memory::setExecutable(blocks[i], ErrMsg).
SetExecutable(i, done) ==
    /\ CanOperate
    /\ Performed(MemOp("setExecutable", i, 0, NoNear, {MF_EXEC}), i,
                 setExecutable(blocks[i], mappings, done))

\* vm_protect is called on Apple ARM only.
TargetVmAnswers == IF target = "applearm" THEN VmAnswers ELSE {"ok"}
\* The second answer matters only when the first attempt failed.
SecondAnswers(how1) == IF how1 = "fail" THEN {"fail", "low"} ELSE {"fail"}

NextMemory ==
    \/ /\ CanOperate /\ LowestFree # 0
       /\ \E n \in RequestSizes, near \in 0..MaxBlocks, F \in PermissionSets,
             how1 \in AllocAnswers :
             \E how2 \in SecondAnswers(how1) :
                AllocateMapped(LowestFree, n, near, F, how1, how2)
    \/ /\ CanOperate /\ LowestFree # 0
       /\ \E n \in RequestSizes, near \in 0..MaxBlocks, how1 \in AllocAnswers,
             vm \in TargetVmAnswers :
             \E how2 \in SecondAnswers(how1) :
                AllocateRWX(LowestFree, n, near, how1, how2, vm)
    \/ /\ CanOperate
       /\ \E i \in 1..MaxBlocks, released \in BOOLEAN : ReleaseMapped(i, released)
    \/ /\ CanOperate
       /\ \E i \in 1..MaxBlocks, released \in BOOLEAN : ReleaseRWX(i, released)
    \/ /\ CanOperate
       /\ \E i \in 1..MaxBlocks, F \in PermissionSets, done \in BOOLEAN :
             ProtectMapped(i, F, done)
    \/ /\ CanOperate
       /\ \E i \in 1..MaxBlocks, done \in BOOLEAN : SetExecutable(i, done)
    \/ TakeResult

SpecMemory == InitMemory /\ [][NextMemory]_vars

(***************************************************************************)
(* process::get_self: the function-local static SP.                        *)
(***************************************************************************)
processVars ==
    <<calls, pc, args, Data, execOk, ret, errMsg, status, Old, execLog, waitCalls,
      child, waitHist, childHist, osState>>
\* The builds: a C++11 compiler initialises a local static under a guard
\* that other threads wait on; Visual Studio 2012 and 2013 test and set a
\* flag without synchronisation.
StaticsChoices == IF backend = "windows" THEN BOOLEAN ELSE {TRUE}

InitSelf ==
    /\ InitProcess /\ ~havePosixSpawn /\ ~sigchldIgnored
    /\ SupportIdle
    /\ target = (IF backend = "windows" THEN "win" ELSE "generic")
    /\ PageSize = 4
    /\ MemoryIdle
    /\ threadSafeStatics \in StaticsChoices
    /\ SelfIdle
    /\ WaitIdle

\* Thread t enters get_self and tests the guard of SP.
SelfTest(t) ==
    /\ selfPc[t] = "start"
    /\ IF threadSafeStatics
       THEN /\ guard # "busy"
            /\ guard' = IF guard = "clear" THEN "busy" ELSE guard
            /\ selfPc' = [selfPc EXCEPT ![t] = IF guard = "clear" THEN "construct" ELSE "ret"]
       ELSE /\ guard' = guard
            /\ selfPc' = [selfPc EXCEPT ![t] = IF guard = "clear" THEN "set" ELSE "ret"]
    /\ UNCHANGED <<supportVars, backend, havePosixSpawn, sigchldIgnored, memVars, waitVars,
                   threadSafeStatics, SP, instances, selfRet, processVars>>

\* Without thread-safe statics: thread t marks SP as initialised, then
\* runs the initialiser.
SelfSetGuard(t) ==
    /\ selfPc[t] = "set"
    /\ guard' = "set"
    /\ selfPc' = [selfPc EXCEPT ![t] = "construct"]
    /\ UNCHANGED <<supportVars, backend, havePosixSpawn, sigchldIgnored, memVars, waitVars,
                   threadSafeStatics, SP, instances, selfRet, processVars>>

\* "new self_process()": thread t constructs an instance.
SelfConstruct(t) ==
    /\ selfPc[t] = "construct"
    /\ instances' = instances + 1
    /\ selfRet' = [selfRet EXCEPT ![t] = instances + 1]
    /\ selfPc' = [selfPc EXCEPT ![t] = "store"]
    /\ UNCHANGED <<supportVars, backend, havePosixSpawn, sigchldIgnored, memVars, waitVars,
                   threadSafeStatics, guard, SP, processVars>>

\* Thread t stores the pointer in SP; a C++11 guard is released.
SelfStore(t) ==
    /\ selfPc[t] = "store"
    /\ SP' = selfRet[t]
    /\ guard' = IF threadSafeStatics THEN "done" ELSE guard
    /\ selfPc' = [selfPc EXCEPT ![t] = "ret"]
    /\ UNCHANGED <<supportVars, backend, havePosixSpawn, sigchldIgnored, memVars, waitVars,
                   threadSafeStatics, instances, selfRet, processVars>>

\* "return SP".
SelfReturn(t) ==
    /\ selfPc[t] = "ret"
    /\ selfRet' = [selfRet EXCEPT ![t] = SP]
    /\ selfPc' = [selfPc EXCEPT ![t] = "done"]
    /\ UNCHANGED <<supportVars, backend, havePosixSpawn, sigchldIgnored, memVars, waitVars,
                   threadSafeStatics, guard, SP, instances, processVars>>

NextSelf ==
    \/ \E t \in Threads : SelfTest(t)
    \/ \E t \in Threads : SelfSetGuard(t)
    \/ \E t \in Threads : SelfConstruct(t)
    \/ \E t \in Threads : SelfStore(t)
    \/ \E t \in Threads : SelfReturn(t)

SpecSelf == InitSelf /\ [][NextSelf]_vars

(***************************************************************************)
(* Wait (POSIX) called by two threads, thread t for its own child t.  The  *)
(* steps are the system calls of Wait; the SIGALRM disposition and the     *)
(* alarm timer belong to the process.                                      *)
(***************************************************************************)
\* secondsToWait of a thread: none, or some.
WaitSeconds == {0, 1}

InitThreads ==
    /\ InitProcess /\ backend = "posix" /\ ~havePosixSpawn /\ ~sigchldIgnored
    /\ SupportIdle
    /\ target = "generic"
    /\ PageSize = 4
    /\ MemoryIdle
    /\ threadSafeStatics = TRUE
    /\ SelfIdle
    /\ wpc = [t \in Waiters |-> "idle"]
    /\ wsecs \in [Waiters -> WaitSeconds]
    /\ wOld = [t \in Waiters |-> "SIG_DFL"]
    /\ wret = [t \in Waiters |-> "none"]
    /\ wreaped = [t \in Waiters |-> {}]
    /\ wtimedOut = [t \in Waiters |-> 0]
    /\ alarmOwner = 0

threadFrame ==
    <<supportVars, backend, havePosixSpawn, sigchldIgnored, memVars, selfVars, wsecs, calls, pc, args,
      Data, execOk, ret, errMsg, status, Old, execLog, waitCalls, child, waitHist,
      childHist, foreignSignals>>

\* The two children have been started, and the threads call Wait.
ThreadsStart ==
    /\ \A t \in Waiters : wpc[t] = "idle"
    /\ procs' = [t \in Waiters |-> Running("program")]
    /\ wpc' = [t \in Waiters |-> "Wait"]
    /\ UNCHANGED <<threadFrame, wOld, wret, wreaped, wtimedOut, alarmOwner, sigalrm,
                   alarmArmed>>

\* "sigaction(SIGALRM, &Act, &Old)" when secondsToWait # 0.
ThreadSigaction(t) ==
    /\ wpc[t] = "Wait"
    /\ IF wsecs[t] # 0
       THEN /\ wOld' = [wOld EXCEPT ![t] = sigalrm]
            /\ sigalrm' = "TimeOutHandler"
            /\ wpc' = [wpc EXCEPT ![t] = "alarm"]
       ELSE /\ wpc' = [wpc EXCEPT ![t] = "waitpid"]
            /\ UNCHANGED <<wOld, sigalrm>>
    /\ UNCHANGED <<threadFrame, wret, wreaped, wtimedOut, alarmOwner, procs, alarmArmed>>

\* "alarm(secondsToWait)": the timer of the process is set anew.
ThreadAlarm(t) ==
    /\ wpc[t] = "alarm"
    /\ alarmArmed' = TRUE
    /\ alarmOwner' = t
    /\ wpc' = [wpc EXCEPT ![t] = "waitpid"]
    /\ UNCHANGED <<threadFrame, wOld, wret, wreaped, wtimedOut, procs, sigalrm>>

\* A child ends on its own.
ThreadChildExits(p) ==
    /\ IsRunning(p)
    /\ procs' = Ended(p, ExitStatus(0))
    /\ UNCHANGED <<threadFrame, wpc, wOld, wret, wreaped, wtimedOut, alarmOwner, sigalrm,
                   alarmArmed>>

\* waitpid(pid, &status, 0) returns the child.
ThreadWaitpidReaps(t) ==
    /\ wpc[t] = "waitpid"
    /\ IsZombie(t)
    /\ procs' = Without(t)
    /\ wreaped' = [wreaped EXCEPT ![t] = @ \cup {t}]
    /\ wpc' = [wpc EXCEPT ![t] = IF wsecs[t] # 0 THEN "off" ELSE "decode"]
    /\ UNCHANGED <<threadFrame, wOld, wret, wtimedOut, alarmOwner, sigalrm, alarmArmed>>

\* waitpid fails with ECHILD: the child has been waited for already.
\* "else if (errno != EINTR)": return -1.
ThreadWaitpidFails(t) ==
    /\ wpc[t] = "waitpid"
    /\ t \notin DOMAIN procs
    /\ wret' = [wret EXCEPT ![t] = "error"]
    /\ wpc' = [wpc EXCEPT ![t] = "done"]
    /\ UNCHANGED <<threadFrame, wOld, wreaped, wtimedOut, alarmOwner, osState>>

\* The timer expires and SIGALRM is delivered to thread t, whose handler
\* runs: a waitpid or wait in progress fails with EINTR.
\* "if (secondsToWait && errno == EINTR)": go on to kill the child,
\* otherwise call waitpid again; an interrupted wait makes Wait return -2.
AlarmFires(t) ==
    /\ alarmArmed /\ sigalrm = "TimeOutHandler"
    /\ wpc[t] \in {"alarm", "waitpid", "kill", "off", "restore", "killoff", "killrestore",
                   "finalwait", "decode", "done"}
    /\ alarmArmed' = FALSE
    /\ alarmOwner' = 0
    /\ IF wpc[t] = "waitpid" /\ IsRunning(t) /\ wsecs[t] # 0
       THEN /\ wpc' = [wpc EXCEPT ![t] = "kill"]
            /\ wtimedOut' = [wtimedOut EXCEPT ![t] = alarmOwner]
            /\ wret' = wret
       ELSE IF wpc[t] = "finalwait" /\ \A q \in DOMAIN procs : ~IsZombie(q)
       THEN /\ wpc' = [wpc EXCEPT ![t] = "done"]
            /\ wret' = [wret EXCEPT ![t] = "timeout"]
            /\ wtimedOut' = wtimedOut
       ELSE UNCHANGED <<wpc, wtimedOut, wret>>
    /\ UNCHANGED <<threadFrame, wOld, wreaped, procs, sigalrm>>

\* The timer expires while the disposition of SIGALRM is the default one:
\* the process is terminated.
KilledByAlarm ==
    /\ alarmArmed /\ sigalrm = "SIG_DFL"
    /\ alarmArmed' = FALSE
    /\ alarmOwner' = 0
    /\ wpc' = [t \in Waiters |-> "killed"]
    /\ UNCHANGED <<threadFrame, wOld, wret, wreaped, wtimedOut, procs, sigalrm>>

\* "kill(child, SIGKILL)".
ThreadKill(t) ==
    /\ wpc[t] = "kill"
    /\ procs' = IF IsRunning(t) THEN Ended(t, SignalStatus(SIGKILL, FALSE)) ELSE procs
    /\ wpc' = [wpc EXCEPT ![t] = "killoff"]
    /\ UNCHANGED <<threadFrame, wOld, wret, wreaped, wtimedOut, alarmOwner, sigalrm,
                   alarmArmed>>

\* "alarm(0)": the pending alarm of the process is cancelled.
ThreadAlarmOff(t) ==
    /\ wpc[t] \in {"off", "killoff"}
    /\ alarmArmed' = FALSE
    /\ alarmOwner' = 0
    /\ wpc' = [wpc EXCEPT ![t] = IF wpc[t] = "off" THEN "restore" ELSE "killrestore"]
    /\ UNCHANGED <<threadFrame, wOld, wret, wreaped, wtimedOut, procs, sigalrm>>

\* "sigaction(SIGALRM, &Old, 0)".
ThreadRestore(t) ==
    /\ wpc[t] \in {"restore", "killrestore"}
    /\ sigalrm' = wOld[t]
    /\ wpc' = [wpc EXCEPT ![t] = IF wpc[t] = "restore" THEN "decode" ELSE "finalwait"]
    /\ UNCHANGED <<threadFrame, wOld, wret, wreaped, wtimedOut, alarmOwner, procs,
                   alarmArmed>>

\* "Wait for child to die": wait(&status) returns q, a child of the process
\* that has ended (any of them), and Wait returns -2.
ThreadFinalReaps(t, q) ==
    /\ wpc[t] = "finalwait"
    /\ IsZombie(q)
    /\ procs' = Without(q)
    /\ wreaped' = [wreaped EXCEPT ![t] = @ \cup {q}]
    /\ wret' = [wret EXCEPT ![t] = "timeout"]
    /\ wpc' = [wpc EXCEPT ![t] = "done"]
    /\ UNCHANGED <<threadFrame, wOld, wtimedOut, alarmOwner, sigalrm, alarmArmed>>

\* "Return the proper exit status" of the child waitpid returned.
ThreadDecode(t) ==
    /\ wpc[t] = "decode"
    /\ wret' = [wret EXCEPT ![t] = "status"]
    /\ wpc' = [wpc EXCEPT ![t] = "done"]
    /\ UNCHANGED <<threadFrame, wOld, wreaped, wtimedOut, alarmOwner, osState>>

NextThreads ==
    \/ ThreadsStart
    \/ \E t \in Waiters : ThreadSigaction(t)
    \/ \E t \in Waiters : ThreadAlarm(t)
    \/ \E p \in Waiters : ThreadChildExits(p)
    \/ \E t \in Waiters : ThreadWaitpidReaps(t)
    \/ \E t \in Waiters : ThreadWaitpidFails(t)
    \/ \E t \in Waiters : AlarmFires(t)
    \/ KilledByAlarm
    \/ \E t \in Waiters : ThreadKill(t)
    \/ \E t \in Waiters : ThreadAlarmOff(t)
    \/ \E t \in Waiters : ThreadRestore(t)
    \/ \E t \in Waiters, q \in Waiters : ThreadFinalReaps(t, q)
    \/ \E t \in Waiters : ThreadDecode(t)

SpecThreads == InitThreads /\ [][NextThreads]_vars

(***************************************************************************)
(* Properties of the process engine.                                       *)
(***************************************************************************)
\* ExecuteAndWait has returned.
CallReturned == pc = "done" /\ api = "wait"
\* ExecuteAndWait has returned after an Execute that reported success.
WaitReturned == CallReturned /\ execOk
\* Execute has returned.
ExecuteReturned == pc = "Executed"
\* The status of a normal exit with code N, as the backend's OS reports it.
NormalStatus(N) == IF backend = "posix" THEN N * 256 ELSE N
\* The exit codes of the model that the engine gives no meaning of its own.
PlainCodes == {0, 1, 125}
\* What ExecuteAndWait returns for the normal exits of a program.
NormalExitReturns ==
    IF backend = "posix"
    THEN {PosixDecode(N * 256, Program, havePosixSpawn).ret : N \in ExitCodes}
    ELSE {WinDecode(N) : N \in {0, 1, 125, 256}}
\* The opens of Execute that are for output.
OutputOpens ==
    {i \in 1..Len(opens) : opens[i].mode \in {"O_WRONLY|O_CREAT", "GENERIC_WRITE"}}
\* The null device, and the open mode of stream i, of the backend.
NullDevice == IF backend = "posix" THEN "/dev/null" ELSE "NUL"
ModeOf(i) ==
    IF backend = "posix"
    THEN (IF i = 0 THEN "O_RDONLY" ELSE "O_WRONLY|O_CREAT")
    ELSE (IF i = 0 THEN "GENERIC_READ" ELSE "GENERIC_WRITE")
\* How the call's child in fact ended.
ChildMode ==
    IF timedOut THEN "timed-out"
    ELSE IF ownStatus = -1 THEN "running"
    ELSE IF backend = "posix"
    THEN (IF ownStatus % 256 # 0 THEN "crashed"
          ELSE IF ownStatus \in {126 * 256, 127 * 256} THEN "could-not-execute"
          ELSE "exited")
    ELSE (IF ownStatus = -1073741819 THEN "crashed" ELSE "exited")
\* The termination modes the value returned stands for.
RetModes ==
    IF ret >= 0 THEN {"exited"}
    ELSE IF ret = -1 THEN {"could-not-execute"}
    ELSE IF ret = -2 THEN {"crashed", "timed-out"}
    ELSE {"crashed"}

\* C1: when the deadline of a wait fires before the child is reaped, the
\* engine kills the child, then makes a final blocking wait that reaps that
\* same child, and only then returns: no final wait starts before the kill
\* was sent, and when the call returns after a timeout the child is gone
\* from the process table (no zombie with its pid remains).
C1_TimeoutKillsThenReaps ==
    /\ pc \in {"finalwait", "WaitInfinite"} => killSent
    /\ (WaitReturned /\ timedOut) => (killSent /\ child \notin DOMAIN procs)

\* C2: a call whose child the engine killed at the deadline returns the
\* timed-out outcome, -2, on either backend, and that value is none of the
\* values a normal exit of the program returns.
C2_TimeoutDistinctFromExit ==
    (WaitReturned /\ timedOut /\ engineKilled)
        => (ret = RetCrashOrTimeout /\ ret \notin NormalExitReturns)

C4_NotExecutableFailsFast ==
    (ExecuteReturned /\ Program = "noexec")
        => (~execOk /\ spawnAttempts = 0 /\ child = 0)

\* C5: when the stdout and stderr redirects are present and equal, Execute
\* never opens the destination a second time, and a child that goes on to
\* run the program has the destination opened exactly once, for stdout,
\* with its stderr the same open file as its stdout.
C5_MergedOpenedOnce ==
    (ExecuteReturned /\ redirects # NoRedirects /\ redirects[2] # NULL
        /\ redirects[2] = redirects[3])
        => /\ Cardinality(OutputOpens) <= 1
           /\ childImage = "program"
                => /\ Cardinality(OutputOpens) = 1
                   /\ streams[1] \in OutputOpens
                   /\ streams[2] = streams[1]
                   /\ opens[streams[1]].file
                        = (IF redirects[2] = "" THEN NullDevice ELSE redirects[2])
C5_Witness ==
    /\ ExecuteReturned /\ childImage = "program"
    /\ redirects = <<NULL, "a", "a">>
    /\ Len(opens) = 1 /\ opens[1].file = "a"
    /\ streams[1] = 1 /\ streams[2] = 1

\* C6: the handle of a successful Execute is waited on exactly once and is
\* invalid afterwards (null, or no longer naming a process that can be
\* waited on); when Execute failed, Wait is never called.
C6_WaitedOnceAndInvalidated ==
    /\ waitCalls <= 1
    /\ CallReturned =>
          IF execOk THEN waitCalls = 1 /\ (Data = 0 \/ Data \notin DOMAIN procs)
          ELSE waitCalls = 0

C8_CouldNotExecute_Original ==
    (WaitReturned /\ backend = "posix" /\ ~timedOut /\ reaped = child
        /\ status \in {126 * 256, 127 * 256})
        => /\ ret = -1
           /\ errMsgGiven =>
                errMsg = (IF status = 127 * 256 /\ Program = "missing"
                          THEN "No such file or directory"
                          ELSE "Program could not be executed")

\* C8 (amended): on POSIX a child that exits with 126 or 127 could not be
\* executed: the call returns -1 with a reason, and a 127 is treated as a
\* 126 ("Program could not be executed") only in a build with posix_spawn
\* and when fs::exists succeeds and reports that the program file exists;
\* otherwise a 127 is reported as "No such file or directory".
C8_CouldNotExecute ==
    (WaitReturned /\ backend = "posix" /\ ~timedOut /\ reaped = child
        /\ status \in {126 * 256, 127 * 256})
        => /\ ret = -1
           /\ errMsgGiven =>
                errMsg = (IF status = 126 * 256
                             \/ (havePosixSpawn /\ Program \in {"ok", "noexec"})
                          THEN "Program could not be executed"
                          ELSE "No such file or directory")
C8_Witness ==
    /\ WaitReturned /\ backend = "posix" /\ havePosixSpawn /\ reaped = child
    /\ Program = "noexec" /\ status = 127 * 256
    /\ ret = -1 /\ errMsg = "Program could not be executed"

\* C9: in a child that goes on to run the program, stream i (0 stdin, 1
\* stdout, 2 stderr) is the caller's own when the redirects array or its
\* entry i is absent, is the null device when the entry is the empty path,
\* and is otherwise the named file, opened for reading when i is 0 and for
\* writing with creation when i is 1 or 2.
C9_RedirectSemantics ==
    (ExecuteReturned /\ childImage = "program") =>
        \A i \in 0..2 :
            IF redirects = NoRedirects \/ Stream(redirects, i) = NULL
            THEN streams[i] = 0
            ELSE /\ streams[i] \in 1..Len(opens)
                 /\ opens[streams[i]].mode = ModeOf(i)
                 /\ opens[streams[i]].file
                      = (IF Stream(redirects, i) = "" THEN NullDevice
                         ELSE Stream(redirects, i))
C9_Witness ==
    /\ ExecuteReturned /\ childImage = "program" /\ backend = "posix"
    /\ redirects = <<"", "a", NULL>>
    /\ opens[streams[0]].file = "/dev/null" /\ opens[streams[0]].mode = "O_RDONLY"
    /\ opens[streams[1]].file = "a" /\ streams[2] = 0

\* C10: when a redirect target cannot be opened, Execute reports the
\* failure to its caller and no child process exists for the call.
C10_RedirectFailureBeforeSpawn ==
    (ExecuteReturned /\ redirects # NoRedirects
        /\ \E i \in 0..2 : Stream(redirects, i) = "bad")
        => (~execOk /\ child = 0)


(***************************************************************************)
(* Properties of the memory manager.                                       *)
(***************************************************************************)
AllocOps == {"allocateMappedMemory", "AllocateRWX"}
\* The last operation was an allocation of NumBytes > 0 that succeeded.
AllocatedSome == memOp.op \in AllocOps /\ memOp.NumBytes > 0 /\ memResult.ok
\* The OS allocation calls of the last operation.
AllocCalls == SelectSeq(osCalls, LAMBDA c : c.call \in {"mmap", "VirtualAlloc"})

\* C13: for every request size NumBytes > 0 and granularity P, a successful
\* allocation (allocateMappedMemory or AllocateRWX) returns a block whose
\* Size is the smallest multiple of P that is >= NumBytes, also when
\* NumBytes + P - 1 wraps in size_t (such a request never succeeds).
C13_SizeRoundedUp ==
    AllocatedSome =>
        /\ memResult.block.Size % PageSize = 0
        /\ memResult.block.Size >= memOp.NumBytes
        /\ memResult.block.Size - memOp.NumBytes < PageSize
        /\ memOp.NumBytes + PageSize - 1 < SizeModulus
\* An allocation of a page and a byte succeeded with two pages.
C13_Witness ==
    /\ AllocatedSome
    /\ memOp.NumBytes = PageSize + 1
    /\ memResult.block.Size = 2 * PageSize

\* The permission sets no backend has a native protection for.
UnmappedSets == {{}, {MF_WRITE, MF_EXEC}}
\* The address the first attempt of the last allocation is made at: the
\* end of the block given as the hint, null without one.
HintAddress ==
    IF memOp.near.given THEN (memOp.near.base + memOp.near.size) % SizeModulus ELSE 0
\* A vm_protect call of the last operation failed.
VmProtectFailed == \E k \in 1..Len(osCalls) : osCalls[k].call = "vm_protect" /\ ~osCalls[k].ok

OnEmpty ==
    \/ memOp.op \in AllocOps /\ memOp.NumBytes = 0
    \/ /\ memOp.op \in {"protectMappedMemory", "releaseMappedMemory", "ReleaseRWX"}
       /\ (memOp.before.Address = 0 \/ memOp.before.Size = 0)

\* C15: operations on empty blocks never touch the OS.  An allocation of
\* size 0 returns success and the empty block without an OS call, whatever
\* the permission set and the hint; protect and release of an empty block
\* return success without an OS call and leave the block unchanged.
C15_EmptyNeverTouchesOS ==
    OnEmpty =>
        /\ osCalls = <<>>
        /\ memResult.ok /\ ~died
        /\ memOp.op \in AllocOps => memResult.block = EmptyBlock
        /\ memOp.op \notin AllocOps => blocks[memOp.i] = memOp.before
\* No bytes were asked for, with an unmapped permission set and a hint.
C15_Witness ==
    /\ memOp.op = "allocateMappedMemory" /\ memOp.NumBytes = 0
    /\ memOp.Flags = {} /\ memOp.near.given /\ memOp.near.base # 0
    /\ osCalls = <<>> /\ memResult.ok /\ blocks[memOp.i] = EmptyBlock

\* The mappings that are the block b, whole: same base, same size.
MappingsOf(maps, b) == {m \in maps : m.base = b.Address /\ m.len = b.Size}

\* C16: allocate followed by release frees the entire block exactly as
\* returned.  A successful allocateMappedMemory returns the base and the
\* size of the one mapping the OS made for it; releaseMappedMemory of a
\* block that is such a mapping issues one OS release, for that base and
\* that size (VirtualFree releases the whole region at that base), and when
\* it succeeds exactly that mapping is gone.
C16_ReleaseFreesWholeBlock ==
    /\ (memOp.op = "allocateMappedMemory" /\ AllocatedSome) =>
          /\ Cardinality(MappingsOf(mappings, memResult.block)) = 1
          /\ MappingsOf(memOp.maps, memResult.block) = {}
          /\ mappings = memOp.maps \cup MappingsOf(mappings, memResult.block)
    /\ (memOp.op = "releaseMappedMemory" /\ MappingsOf(memOp.maps, memOp.before) # {}) =>
          /\ Len(osCalls) = 1
          /\ osCalls[1].call = (IF backend = "windows" THEN "VirtualFree" ELSE "munmap")
          /\ osCalls[1].addr = memOp.before.Address
          /\ osCalls[1].len = (IF backend = "windows" THEN 0 ELSE memOp.before.Size)
          /\ memResult.ok <=> osCalls[1].ok
          /\ memResult.ok => mappings = memOp.maps \ MappingsOf(memOp.maps, memOp.before)
          /\ ~memResult.ok => mappings = memOp.maps
\* A read+write block of two pages was released, and nothing is mapped.
C16_Witness ==
    /\ memOp.op = "releaseMappedMemory" /\ memResult.ok
    /\ memOp.before.Size = 2 * PageSize
    /\ \E m \in MappingsOf(memOp.maps, memOp.before) :
          m.prot = (IF backend = "windows" THEN "PAGE_READWRITE"
                    ELSE {"PROT_READ", "PROT_WRITE"})
    /\ mappings = {}

ReleaseOps == {"releaseMappedMemory", "ReleaseRWX"}
\* Nothing is mapped at the address of block b.
NotMapped(maps, b) == ~\E m \in maps : m.base <= b.Address /\ b.Address < m.base + m.len

\* C17: after a successful release of a non-empty block, through
\* releaseMappedMemory or through ReleaseRWX, the block is empty (Address = 0
\* and Size = 0), so a release of a block that is no longer mapped issues no
\* OS call; when the OS release fails an error is returned and the block is
\* left unchanged.
C17_ReleasedBlockIsEmpty ==
    (memOp.op \in ReleaseOps /\ memOp.before.Address # 0 /\ memOp.before.Size # 0) =>
        /\ (Len(osCalls) = 1 /\ osCalls[1].ok) =>
              memResult.ok /\ blocks[memOp.i] = EmptyBlock
        /\ (Len(osCalls) = 1 /\ ~osCalls[1].ok) =>
              ~memResult.ok /\ blocks[memOp.i] = memOp.before
        /\ NotMapped(memOp.maps, memOp.before) => osCalls = <<>>

\* The last operation was asked to make a non-empty block executable.
GrantsExec ==
    \/ memOp.op = "allocateMappedMemory" /\ memOp.NumBytes > 0 /\ MF_EXEC \in memOp.Flags
    \/ /\ memOp.op = "protectMappedMemory" /\ MF_EXEC \in memOp.Flags
       /\ memOp.before.Address # 0 /\ memOp.before.Size # 0
    \/ /\ memOp.op = "setExecutable"
       /\ memOp.before.Address # 0 /\ memOp.before.Size # 0
\* The last operation invalidated the instruction cache for the whole block.
CacheInvalidated ==
    \E k \in 1..Len(osCalls) :
        /\ osCalls[k].call = "icache"
        /\ osCalls[k].addr = blocks[memOp.i].Address
        /\ osCalls[k].len = blocks[memOp.i].Size

\* C18: every operation that grants execute permission on a block
\* (allocateMappedMemory and protectMappedMemory with MF_EXEC, setExecutable)
\* invalidates the instruction cache for [Address, Address + Size) before it
\* returns success; a protect whose OS call fails does not report success.
C18_ExecInvalidatesCache ==
    /\ (GrantsExec /\ memResult.ok /\ ~died) => CacheInvalidated
    /\ (memOp.op = "protectMappedMemory" /\ osCalls # <<>> /\ ~osCalls[1].ok) => ~memResult.ok

\* What a native protection allows.
Grants(prot) ==
    IF backend = "windows"
    THEN CASE prot = "PAGE_READONLY" -> {MF_READ}
           [] prot = "PAGE_READWRITE" -> {MF_READ, MF_WRITE}
           [] prot = "PAGE_EXECUTE" -> {MF_EXEC}
           [] prot = "PAGE_EXECUTE_READ" -> {MF_READ, MF_EXEC}
           [] prot = "PAGE_EXECUTE_READWRITE" -> {MF_READ, MF_WRITE, MF_EXEC}
           [] OTHER -> {}
    ELSE {f \in {MF_READ, MF_WRITE, MF_EXEC} :
            \/ f = MF_READ /\ "PROT_READ" \in prot
            \/ f = MF_WRITE /\ "PROT_WRITE" \in prot
            \/ f = MF_EXEC /\ "PROT_EXEC" \in prot}
\* The OS calls of the last operation that carry a protection.
ProtectionCalls ==
    SelectSeq(osCalls, LAMBDA c : c.call \in {"mmap", "VirtualAlloc", "mprotect",
                                              "VirtualProtect"})

\* C19: the native protection a permission set is translated to, as
\* allocateMappedMemory and protectMappedMemory hand it to the OS, grants at
\* least every permission requested; MF_WRITE alone on Windows yields
\* read+write.
C19_AtLeastRequested ==
    memOp.op \in {"allocateMappedMemory", "protectMappedMemory"} =>
        \A k \in 1..Len(ProtectionCalls) :
            /\ memOp.Flags \subseteq Grants(ProtectionCalls[k].prot)
            /\ (backend = "windows" /\ memOp.Flags = {MF_WRITE}) =>
                  Grants(ProtectionCalls[k].prot) = {MF_READ, MF_WRITE}
\* A write-only block was allocated on Windows.
C19_Witness ==
    /\ backend = "windows" /\ memOp.op = "allocateMappedMemory"
    /\ memOp.Flags = {MF_WRITE} /\ memResult.ok
    /\ Len(ProtectionCalls) = 1 /\ ProtectionCalls[1].prot = "PAGE_READWRITE"
    /\ memResult.block.Size > 0

\* The last operation was asked for a permission set without a native
\* protection, on something that is not empty.
AskedUnmapped ==
    /\ memOp.Flags \in UnmappedSets
    /\ \/ memOp.op = "allocateMappedMemory" /\ memOp.NumBytes > 0
       \/ /\ memOp.op = "protectMappedMemory"
          /\ memOp.before.Address # 0 /\ memOp.before.Size # 0

\* C20: for a permission set the backend has no mapping for (the empty set,
\* write+execute without read), allocateMappedMemory of a non-zero size and
\* protectMappedMemory of a non-empty block end in FatalError::Die or in an
\* error return: no OS call is made, no mapping changes and no block is
\* returned.
C20_UnmappedIsHardFailure ==
    AskedUnmapped =>
        /\ osCalls = <<>>
        /\ mappings = memOp.maps
        /\ ~memResult.ok
        /\ died \/ (backend = "posix" /\ memOp.op = "protectMappedMemory" /\ memOp.Flags = {})
        /\ memOp.op = "allocateMappedMemory" => memResult.block = EmptyBlock
        /\ blocks[memOp.i] = memOp.before
\* A write+execute allocation ended in FatalError::Die.
C20_Witness ==
    /\ memOp.op = "allocateMappedMemory" /\ memOp.NumBytes > 0
    /\ memOp.Flags = {MF_WRITE, MF_EXEC}
    /\ died /\ osCalls = <<>>


\* C21: whenever AllocateRWX fails for a non-zero size it returns the empty
\* block and leaves a diagnostic in the caller's ErrMsg, without a hint and
\* with a hint whose retry fails too.
C21_RWXFailureDiagnosed ==
    (memOp.op = "AllocateRWX" /\ memOp.NumBytes > 0 /\ ~memResult.ok) =>
        memResult.block = EmptyBlock /\ memResult.msg

(***************************************************************************)
(* Properties of process::get_self.                                        *)
(***************************************************************************)
\* C12: for any number of threads that call get_self() concurrently for the
\* first time, the self_process constructor runs exactly once, no call
\* returns before construction has completed (no call returns null), and
\* every call returns the same instance.
C12_SingleInit ==
    /\ instances <= 1
    /\ \A t \in Threads : selfPc[t] = "done" => selfRet[t] = 1


(***************************************************************************)
(* Properties of concurrent waits.                                         *)
(***************************************************************************)
\* C11: when two threads wait at the same time, with or without timeouts,
\* each for its own child, each wait returns the outcome of its own child:
\* a wait never obtains the status of the other child, it reports a timeout
\* only when its own alarm expired, it keeps its own deadline while it
\* waits, and the process survives.
C11_WaitsAreIndependent ==
    \A t \in Waiters :
        /\ wreaped[t] \subseteq {t}
        /\ wret[t] # "error"
        /\ wtimedOut[t] \in {0, t}
        /\ (wpc[t] = "waitpid" /\ wsecs[t] # 0) => (alarmArmed /\ alarmOwner = t)
        /\ wpc[t] # "killed"


(***************************************************************************)
(* FatalError: the caller installs handlers and calls Die.                 *)
(***************************************************************************)
\* The engine, the memory manager, get_self and the waiting threads unused.
RestIdle ==
    /\ InitProcess /\ ~havePosixSpawn /\ ~sigchldIgnored
    /\ target = (IF backend = "windows" THEN "win" ELSE "generic")
    /\ PageSize = 4
    /\ MemoryIdle
    /\ threadSafeStatics = TRUE
    /\ SelfIdle
    /\ WaitIdle

InitFatal ==
    /\ RestIdle
    /\ FitIdle
    /\ FobIdle
    /\ NDEBUG \in BOOLEAN
    /\ sInstalledHandler = "cAssertingErrorHandler"
    /\ installs = 0
    /\ fatalPc = "running"
    /\ dieMsg = ""
    /\ reported = <<>>
    /\ ended = "no"
    /\ dieReturned = FALSE

fatalFrame ==
    <<backend, havePosixSpawn, sigchldIgnored, memVars, selfVars, waitVars, fitVars,
      fobVars, processVars>>

\* FatalError::InstallErrorHandler(handler): sInstalledHandler.reset(handler).
InstallErrorHandler(handler) ==
    /\ fatalPc = "running"
    /\ installs < MaxInstalls
    /\ sInstalledHandler' = handler
    /\ installs' = installs + 1
    /\ UNCHANGED <<NDEBUG, fatalPc, dieMsg, reported, ended, dieReturned, fatalFrame>>

\* FatalError::Die(error_msg) up to the call of the handler.
FatalErrorDie(error_msg) ==
    /\ fatalPc = "running"
    /\ ~dieReturned
    /\ dieMsg' = error_msg
    /\ fatalPc' = IF sInstalledHandler # "null" THEN "ReportAndDie" ELSE "epilogue"
    /\ UNCHANGED <<NDEBUG, sInstalledHandler, installs, reported, ended, dieReturned,
                   fatalFrame>>

\* sInstalledHandler->ReportAndDie(str).
HandlerReportAndDie ==
    /\ fatalPc = "ReportAndDie"
    /\ reported' = Append(reported, dieMsg)
    /\ LET how == ReportAndDie(sInstalledHandler)
       IN  IF how = "return"
           THEN fatalPc' = "epilogue" /\ ended' = ended
           ELSE fatalPc' = "ended" /\ ended' = how
    /\ UNCHANGED <<NDEBUG, sInstalledHandler, installs, dieMsg, dieReturned, fatalFrame>>

\* The last statement of Die.
DieEnds ==
    /\ fatalPc = "epilogue"
    /\ IF DieEpilogue = "exit"
       THEN fatalPc' = "ended" /\ ended' = "exit" /\ dieReturned' = dieReturned
       ELSE fatalPc' = "running" /\ ended' = ended /\ dieReturned' = TRUE
    /\ UNCHANGED <<NDEBUG, sInstalledHandler, installs, dieMsg, reported, fatalFrame>>

NextFatal ==
    \/ \E handler \in Handlers : InstallErrorHandler(handler)
    \/ \E error_msg \in Messages : FatalErrorDie(error_msg)
    \/ HandlerReportAndDie
    \/ DieEnds

SpecFatal == InitFatal /\ [][NextFatal]_vars

(***************************************************************************)
(* Properties of FatalError.                                               *)
(***************************************************************************)
\* C22: FatalError::Die never returns to its caller: once Die is called the
\* caller does not run again, and when Die's work is over the process has
\* ended, whichever handler is installed and even if its ReportAndDie
\* returned.
C22_DieNeverReturns ==
    /\ ~dieReturned
    /\ dieMsg # "" => fatalPc # "running"
    /\ fatalPc = "ended" => ended \in {"abort", "exit"}
    /\ fatalPc # "ended" => ended = "no"
\* Die was called with a handler whose ReportAndDie returned, and the
\* process ended in Die's own exit.
C22_Witness ==
    /\ fatalPc = "ended"
    /\ sInstalledHandler = "returns"
    /\ reported = <<dieMsg>>
    /\ ended = "exit"


(***************************************************************************)
(* argumentsFitWithinSystemLimits: the caller asks about one argument list *)
(* several times.                                                          *)
(***************************************************************************)
\* The argument lists of the model.
ArgLists == UNION {[1..n -> ArgStrings] : n \in 0..MaxArgs}

InitFit ==
    /\ RestIdle
    /\ FatalIdle
    /\ FobIdle
    /\ sysconfArgMax \in (IF backend = "posix" THEN SysconfAnswers ELSE {-1})
    /\ ArgMax = <<>>
    /\ Args \in ArgLists
    /\ limitUsed = <<>>
    /\ examined = 0
    /\ answers = <<>>

fitFrame ==
    <<backend, havePosixSpawn, sigchldIgnored, memVars, selfVars, waitVars, fatalVars,
      fobVars, processVars>>

\* The caller takes the answer r of a call.
Answered(r) ==
    /\ ArgMax' = r.ArgMax
    /\ limitUsed' = r.limit
    /\ examined' = r.examined
    /\ answers' = Append(answers, r.ret)
    /\ UNCHANGED <<sysconfArgMax, Args, fitFrame>>

\* argumentsFitWithinSystemLimits(Args), POSIX.
ArgumentsFitPosix ==
    /\ backend = "posix"
    /\ Len(answers) < MaxFitCalls
    /\ Answered(PosixArgumentsFit(Args, ArgMax, sysconfArgMax))

\* argumentsFitWithinSystemLimits(Args), Windows.
ArgumentsFitWindows ==
    /\ backend = "windows"
    /\ Len(answers) < MaxFitCalls
    /\ Answered(WindowsArgumentsFit(Args))

NextFit ==
    \/ ArgumentsFitPosix
    \/ ArgumentsFitWindows

SpecFit == InitFit /\ [][NextFit]_vars

(***************************************************************************)
(* Properties of argumentsFitWithinSystemLimits.                           *)
(***************************************************************************)
\* The sum of f[1] .. f[k].
RECURSIVE SumTo(_, _)
SumTo(f, k) == IF k = 0 THEN 0 ELSE f[k] + SumTo(f, k - 1)
\* The length of each argument on the platform's command line: with its
\* terminator (POSIX), quoted, escaped and with its separator (Windows).
PlatformLengths ==
    [I \in 1..Len(Args) |->
        IF backend = "windows" THEN Len(CommandLineArg(Args[I])) ELSE strlen(Args[I]) + 1]
\* What the function adds for each argument.
CountedLengths ==
    [I \in 1..Len(Args) |->
        IF backend = "windows" THEN ArgLenWithQuotes(Args[I]) + 1 ELSE strlen(Args[I]) + 1]
\* The platform has a maximum command-line length.
PlatformLimited == backend = "windows" \/ sysconfArgMax # -1
PlatformMaximum == IF backend = "windows" THEN MaxCommandStringLength ELSE sysconfArgMax
\* The arguments at which the running total is above the limit of the last call.
Exceeding == {k \in 1..Len(Args) : SumTo(CountedLengths, k) > limitUsed[1]}
LastAnswer == answers[Len(answers)]

\* C23: when argumentsFitWithinSystemLimits returns true the total length of
\* the arguments, each with its terminator or separator and on Windows with
\* its quotes and escapes, does not exceed the platform's maximum; and it
\* returns false exactly at the first argument at which its running total
\* exceeds the limit it compares against.
C23_ConservativePreCheck ==
    answers # <<>> =>
        /\ (LastAnswer /\ PlatformLimited) =>
               SumTo(PlatformLengths, Len(Args)) <= PlatformMaximum
        /\ limitUsed = <<>> => LastAnswer
        /\ limitUsed # <<>> =>
               /\ LastAnswer = (Exceeding = {})
               /\ ~LastAnswer =>
                      /\ examined \in Exceeding
                      /\ \A k \in Exceeding : examined <= k
\* A list with a quoted and escaped argument was found to fit on Windows,
\* and a list on POSIX was refused at its second argument.
C23_Witness ==
    /\ answers # <<>>
    /\ \/ /\ backend = "windows" /\ LastAnswer
          /\ \E I \in 1..Len(Args) : Quote \in {Args[I][i] : i \in 1..Len(Args[I])}
       \/ /\ backend = "posix" /\ ~LastAnswer /\ examined = 2

\* C29: on POSIX every call of argumentsFitWithinSystemLimits with the same
\* argument list leaves the cached limit as the first call set it and
\* returns what the first call returned.
C29_SameAnswerEveryCall ==
    backend = "posix" =>
        /\ \A i \in 1..Len(answers) : answers[i] = answers[1]
        /\ Len(answers) > 1 =>
               ArgMax = PosixArgumentsFit(Args, <<>>, sysconfArgMax).ArgMax


(***************************************************************************)
(* FileOutputBuffer: one buffer is created, written, committed and         *)
(* destroyed.                                                              *)
(***************************************************************************)
\* The content of the file a caller wants to replace.
OldContent == <<1, 1, 1>>

InitFob ==
    /\ RestIdle
    /\ FatalIdle
    /\ FitIdle
    /\ FinalFile \in {Absent, Directory, Regular(OldContent)}
    /\ TempFile = Absent
    /\ fobPc = "none"
    /\ Region = FALSE
    /\ BufferSize = 0
    /\ created = "none"
    /\ commits = <<>>
    /\ removeFailed = FALSE

fobFrame ==
    <<backend, havePosixSpawn, sigchldIgnored, memVars, selfVars, waitVars, fatalVars,
      fitVars, processVars>>

\* FileOutputBuffer::create(FilePath, Size, Result, Flags).
FobCreate(Sz, os, Grown) ==
    /\ created = "none"
    /\ LET r == create(FinalFile, Sz, os, Grown)
       IN  /\ created' = r.ret
           /\ FinalFile' = r.Final
           /\ TempFile' = r.Temp
           /\ Region' = r.Region
           /\ fobPc' = IF r.ret = "ok" THEN "live" ELSE fobPc
    /\ BufferSize' = Sz
    /\ UNCHANGED <<commits, removeFailed, fobFrame>>

\* The caller stores a byte at getBufferStart() + i - 1; the mapping is
\* shared, so the byte is the file's.
FobWrite(i) ==
    /\ fobPc = "live"
    /\ Region
    /\ TempFile.content[i] = 0
    /\ TempFile' = Regular([TempFile.content EXCEPT ![i] = 2])
    /\ UNCHANGED <<FinalFile, fobPc, Region, BufferSize, created, commits,
                   removeFailed, fobFrame>>

\* FileOutputBuffer::commit(NewSmallerSize).
FobCommit(NewSmallerSize, os) ==
    /\ fobPc = "live"
    /\ Len(commits) < MaxCommits
    /\ LET r == commit(FinalFile, TempFile, NewSmallerSize, os)
       IN  /\ FinalFile' = r.Final
           /\ TempFile' = r.Temp
           /\ commits' = Append(commits, [NewSmallerSize |-> NewSmallerSize,
                                          buffer |-> TempFile.content,
                                          ret |-> r.ret])
    /\ Region' = FALSE
    /\ UNCHANGED <<fobPc, BufferSize, created, removeFailed, fobFrame>>

\* FileOutputBuffer::~FileOutputBuffer(): the body removes TempPath, then
\* the member Region is destroyed.
FobDestroy ==
    /\ fobPc = "live"
    /\ removeFailed' = RemoveRefused(TempFile, Region)
    /\ TempFile' = IF RemoveRefused(TempFile, Region) THEN TempFile ELSE Absent
    /\ Region' = FALSE
    /\ fobPc' = "gone"
    /\ UNCHANGED <<FinalFile, BufferSize, created, commits, fobFrame>>

NextFob ==
    \/ \E Sz \in 1..MaxBufferSize, os \in CreateAnswers, Grown \in BOOLEAN :
           FobCreate(Sz, os, Grown)
    \/ \E i \in 1..BufferSize : FobWrite(i)
    \/ \E NewSmallerSize \in {-1} \cup 0..BufferSize, os \in CommitAnswers :
           FobCommit(NewSmallerSize, os)
    \/ FobDestroy

SpecFob == InitFob /\ [][NextFob]_vars

(***************************************************************************)
(* Properties of FileOutputBuffer.                                         *)
(***************************************************************************)
\* The commits that succeeded.
Succeeded == {i \in 1..Len(commits) : commits[i].ret = "ok"}

\* C24: over the life of a FileOutputBuffer, a commit that succeeded leaves
\* the buffer's content as of the commit at the target path; without a call
\* of commit the target is never written; and once the buffer is destroyed
\* no temporary file of it remains, committed or not.
C24_BufferLifecycle ==
    created = "ok" =>
        /\ \A i \in Succeeded :
               FinalFile = Regular(IF commits[i].NewSmallerSize = -1
                                   THEN commits[i].buffer
                                   ELSE Truncated(commits[i].buffer,
                                                  commits[i].NewSmallerSize))
        /\ commits = <<>> => FinalFile = Absent
        /\ fobPc = "gone" => TempFile = Absent


(***************************************************************************)
(* Further properties of the process engine.                               *)
(***************************************************************************)
\* C25: on POSIX, a waitpid interrupted by a signal that is not the
\* engine's expired alarm is retried, with and without a timeout: the
\* interruption neither takes Wait to its timeout path nor makes it kill
\* the child.
C25_ForeignEintrRetried ==
    (backend = "posix" /\ lastEintr = "foreign") => (~timedOut /\ ~killSent)

\* What the call returns for the status the child ended with on its own.
OwnReturn ==
    IF backend = "posix" THEN PosixDecode(ownStatus, Program, havePosixSpawn).ret
    ELSE WinDecode(ownStatus)
\* The diagnostics of the timeout path.
TimeoutDiagnostics ==
    {MakeErrMsg("Child timed out", "0"),
     MakeErrMsg("Child timed out but wouldn't die", "EINTR"),
     MakeErrMsg("Child timed out but wouldn't die", "ECHILD"),
     WinMakeErrMsg("Failed to terminate timed-out program.", "Access is denied.")}

\* C26: when the deadline fires and the child has ended on its own before
\* the engine's kill, so that the kill ends nothing, the call returns what
\* the child's own termination decodes to and leaves no diagnostic of the
\* timeout path.
C26_LostRaceIsNotAnError ==
    (WaitReturned /\ timedOut /\ killSent /\ ~engineKilled /\ ownStatus # -1)
        => (ret = OwnReturn /\ errMsg \notin TimeoutDiagnostics)

\* C27: for the program and redirects of a POSIX call and the same answers
\* of the OS, Execute by posix_spawn and Execute by fork and exec return
\* the same, leave a child or none alike, and give a child that runs the
\* program the same three streams.
C27_StrategiesIndistinguishable ==
    (ExecuteReturned /\ backend = "posix") =>
        \A os \in {"ok", "procfail"}, sync \in BOOLEAN :
            LET s == PosixSpawnExecute(Program, redirects, os, sync)
                f == ForkExecute(Program, redirects, os)
            IN  /\ s.ret = f.ret
                /\ (s.image = "none") = (f.image = "none")
                /\ (s.image = "program") = (f.image = "program")
                /\ s.image = "program" => s.io.streams = f.io.streams

\* C28: the child of the fork/exec strategy never runs the caller's code:
\* it runs the program or it has left through _exit.
C28_ForkedChildNeverReturns ==
    \A p \in DOMAIN procs : procs[p].image # "clone"

\* C30: a POSIX Wait that armed a timeout has, when it returns, cancelled
\* the alarm and put back the SIGALRM disposition it found; a Wait without
\* a timeout changes neither the disposition nor the alarm.
C30_AlarmAndHandlerRestored ==
    /\ [](((backend = "posix" /\ WaitReturned /\ secondsToWait # 0)
              => (~alarmArmed /\ sigalrm = Old)))
    /\ [][(backend = "posix" /\ secondsToWait = 0
              /\ pc \in {"Wait", "waitpid", "decode"})
              => UNCHANGED <<sigalrm, alarmArmed>>]_vars

====
